---- MODULE Spec2Model ----
(***************************************************************************)
(* A model of the copy-trading core of poly-sdk: the FIFO lot ledger of    *)
(* scripts/smart-money/wallet-deepdive.ts (found in test-relayer-api.ts),  *)
(* the per-token holdings and the onTrade callback of                      *)
(* scripts/smart-money/crypto-copy-trade.ts, the poll loop and the txHash  *)
(* dedup of the SmartMoneyService documents, and the order confirmation    *)
(* loop of scripts/e2e-builder-test.ts.                                    *)
(*                                                                         *)
(* Numbers.  The scripts compute in IEEE doubles.  The model computes in   *)
(* integers of a smallest unit: a size is a number of shares, a price is a *)
(* number of 1/10000 USD, a value or a cost is shares * price.  A quotient *)
(* a * (b / c) is computed as (a * b) \div c.                              *)
(***************************************************************************)
EXTENDS Integers, Sequences, FiniteSets, TLC

VARIABLES
  \* ---- wallet-deepdive FIFO ledger (test-relayer-api.ts 424-455)
  lotsAllByAsset,       \* asset -> sequence of lots [size, cost]
  realizedProceedsAll,  \* sum of take * price over all SELLs
  totalCostAll,         \* sum of size * price over all BUYs
  fifoCount,            \* number of trades of `sorted` applied so far
  fifoLast,             \* the trade applied last, with the queue it found
  \* ---- copy-trade pipeline (crypto-copy-trade.ts, startAutoCopyTrading)
  holdings,             \* Map tokenId -> [shares, costBasis]; DOMAIN = the keys present
  stats,                \* RunStats counters
  inflight,             \* replica orders submitted and not yet settled
  nextId,               \* number of trades handed to the copy-trade handler, plus 1
  orders,               \* id -> number of orders submitted for that trade
  callbacks,            \* id -> number of onTrade calls for that trade
  boughtShares,               \* asset -> shares of all successfully executed replica BUYs
  soldShares,                 \* asset -> shares of all successfully executed replica SELLs
  lastCb,               \* the onTrade call made last, with what it found
  \* ---- trade discovery (SmartMoneyService: pollTargetWallets, seenTxHashes)
  clock,                \* Math.floor(Date.now() / 1000)
  activity,             \* the feed: transactionHash -> [timestamp, wallets] of a trade made
  lastCheckTimestamp,   \* this.lastCheckTimestamp
  seenTxHashes,         \* this.seenTxHashes, in insertion order
  pendingTicks,         \* interval callbacks awaiting their feed queries: [id, now, start]
  tickCount,            \* interval callbacks started
  handed,               \* transactionHash -> times it was handed to the trade handlers
  evicted,              \* transactionHash -> times it was removed from seenTxHashes
  fed,                  \* transactionHash -> times the queries returned it, up to 2
  pollErrors,           \* ticks that ended in the catch of the interval callback
  lastTick,             \* the tick that ended last, with what it found
  \* ---- confirmation of one order (e2e-builder-test.ts, Step 5)
  conf,                 \* the order being confirmed: what the exchange answers, the result
  \* ---- the watch set and the poll timer (SmartMoneyService.startPolling)
  walletCount,          \* this.targetWallets.length
  pollInterval,         \* this.pollInterval, in seconds
  subscribeCalls,       \* subscriptions made so far
  polling,              \* the poll timer is set
  \* ---- the copy-trading loop (startCopyTrading: interval callbacks awaiting orders)
  loopTicks,            \* interval callbacks started so far
  loopCallbacks,        \* the callbacks still running: [id, todo, awaiting, polls]
  loopCompleted,        \* callback id -> orders of it that were submitted and resolved
  \* ---- shutdown of the copy-trade script (crypto-copy-trade.ts, shutdown)
  stopped,              \* shutdown() has run: subscription.stop(), sdk.stop(), process.exit(0)
  finalStats,           \* the counters of the Final Stats report
  \* ---- subscriptions (SmartMoneyService.subscribeSmartMoneyTrades)
  tradeHandlers,        \* this.tradeHandlers: the subscriptions whose handler is registered
  subOptions,           \* subscription -> the options its filteredHandler closes over
  unsubscribed,         \* the subscriptions whose unsubscribe() has returned
  remaining,            \* new trades of the current tick not handed to the handlers yet
  lastEmit,             \* the trade handed on last, with the callbacks it reached
  \* ---- Risk Gate evaluations
  gateFirst,            \* an evaluation of the Risk Gate: trade, options, held shares, decision
  gateSecond,           \* a further evaluation of the same trade with the same options
  \* ---- the seen set on its own (seenTxHashes is the set)
  inserted,             \* the hashes added to seenTxHashes, in the order they were added
  removedLog,           \* the hashes removed from seenTxHashes, in the order of removal
  \* ---- one call of waitForFill against the clock
  wait,                 \* timeout, time since start, getOrder calls made, answer read last
  \* ---- the RelayerService
  relay                 \* the operation called last, what the relay client did, the result

fifoVars == <<lotsAllByAsset, realizedProceedsAll, totalCostAll, fifoCount, fifoLast>>

copyVars == <<holdings, stats, inflight, nextId, orders, callbacks, boughtShares, soldShares, lastCb>>

pollVars == <<clock, activity, lastCheckTimestamp, seenTxHashes, pendingTicks, tickCount,
              handed, evicted, fed, pollErrors, lastTick>>

confVars == <<conf>>

timerVars == <<walletCount, pollInterval, subscribeCalls, polling>>

loopVars == <<loopTicks, loopCallbacks, loopCompleted>>

stopVars == <<stopped, finalStats>>

subVars == <<tradeHandlers, subOptions, unsubscribed, remaining, lastEmit>>

gateVars == <<gateFirst, gateSecond>>
seenVars == <<inserted, removedLog>>
waitVars == <<wait>>
relayVars == <<relay>>

vars == <<fifoVars, copyVars, pollVars, confVars, timerVars, loopVars, stopVars, subVars,
          gateVars, seenVars, waitVars, relayVars>>

\* the variables the steps of one part leave alone
notFifo == <<copyVars, pollVars, confVars, timerVars, loopVars, stopVars, subVars, gateVars, seenVars, waitVars, relayVars>>
notCopy == <<fifoVars, pollVars, confVars, timerVars, loopVars, stopVars, subVars, gateVars, seenVars, waitVars, relayVars>>
notPoll == <<fifoVars, copyVars, confVars, timerVars, loopVars, stopVars, subVars, gateVars, seenVars, waitVars, relayVars>>
notConf == <<fifoVars, copyVars, pollVars, timerVars, loopVars, stopVars, subVars, gateVars, seenVars, waitVars, relayVars>>
notTimer == <<fifoVars, copyVars, pollVars, confVars, loopVars, stopVars, subVars, gateVars, seenVars, waitVars, relayVars>>
notLoop == <<fifoVars, copyVars, pollVars, confVars, timerVars, stopVars, subVars, gateVars, seenVars, waitVars, relayVars>>
notStop == <<fifoVars, pollVars, confVars, timerVars, loopVars, subVars, gateVars, seenVars, waitVars, relayVars>>
notSub == <<fifoVars, copyVars, pollVars, confVars, timerVars, loopVars, stopVars, gateVars, seenVars, waitVars, relayVars>>
notGate == <<fifoVars, copyVars, pollVars, confVars, timerVars, loopVars, stopVars, subVars, seenVars, waitVars, relayVars>>
notSeen == <<fifoVars, copyVars, confVars, timerVars, loopVars, stopVars, subVars, gateVars, waitVars, relayVars>>
notWait == <<fifoVars, copyVars, pollVars, confVars, timerVars, loopVars, stopVars, subVars, gateVars,
            seenVars, relayVars>>
notRelay == <<fifoVars, copyVars, pollVars, confVars, timerVars, loopVars, stopVars, subVars, gateVars,
             seenVars, waitVars>>

Assets == {"A", "B"}

(***************************************************************************)
(* Helpers                                                                 *)
(***************************************************************************)
\* Math.min
Min(a, b) == IF a <= b THEN a ELSE b

RECURSIVE SumSize(_)
\* the sum of lot.size over a queue
SumSize(lots) == IF lots = <<>> THEN 0 ELSE Head(lots).size + SumSize(Tail(lots))

RECURSIVE SumCost(_)
\* the sum of lot.cost over a queue
SumCost(lots) == IF lots = <<>> THEN 0 ELSE Head(lots).cost + SumCost(Tail(lots))

(***************************************************************************)
(* FIFO lot ledger                                                         *)
(***************************************************************************)
\* bounds of the FIFO specification
FifoMaxTrades == 3
FifoMaxLots == 2
FifoSizes == {5, 10, 15}
FifoPrices == {5000, 6000, 7000}

\* the BUYs applied to the ledger: every size at every price, and 50 shares at $0.40
FifoBuys ==
  {[size |-> z, price |-> p] : z \in FifoSizes, p \in FifoPrices}
    \cup {[size |-> 50, price |-> 4000]}

\* a push that puts the new lot at the front of the queue
FifoBuyFront(lots, size, price) == <<[size |-> size, cost |-> size * price]>> \o lots

\* lots.push({ size: t.size, cost })  with  cost = t.size * t.price
FifoBuy(lots, size, price) == Append(lots, [size |-> size, cost |-> size * price])

\* a sell loop that consumes the newest lot first
RECURSIVE SellLoopLifo(_, _, _, _, _)
SellLoopLifo(lots, toSell, price, proceeds, costRemoved) ==
  IF toSell > 0 /\ Len(lots) > 0
  THEN LET n == Len(lots)
           lot == lots[n]
           take == Min(lot.size, toSell)
           costTaken == (lot.cost * take) \div lot.size
           left == [size |-> lot.size - take, cost |-> lot.cost - costTaken]
           rest == IF left.size <= 0 THEN SubSeq(lots, 1, n - 1)
                   ELSE SubSeq(lots, 1, n - 1) \o <<left>>
       IN SellLoopLifo(rest, toSell - take, price, proceeds + take * price,
                       costRemoved + costTaken)
  ELSE [lots |-> lots, proceeds |-> proceeds, costRemoved |-> costRemoved]

\* a sell loop that removes a depleted lot only when it comes back to it
RECURSIVE SellLoopShiftLate(_, _, _, _, _)
SellLoopShiftLate(lots, toSell, price, proceeds, costRemoved) ==
  IF toSell > 0 /\ Len(lots) > 0
  THEN LET lot == lots[1] IN
       IF lot.size <= 0
       THEN SellLoopShiftLate(Tail(lots), toSell, price, proceeds, costRemoved)
       ELSE LET take == Min(lot.size, toSell)
                costTaken == (lot.cost * take) \div lot.size
                left == [size |-> lot.size - take, cost |-> lot.cost - costTaken]
            IN SellLoopShiftLate(<<left>> \o Tail(lots), toSell - take, price,
                                 proceeds + take * price, costRemoved + costTaken)
  ELSE [lots |-> lots, proceeds |-> proceeds, costRemoved |-> costRemoved]

\* while (toSell > 0 && lots.length > 0) { lot = lots[0]; take = min(lot.size, toSell);
\*   costRatio = take / lot.size; lot.size -= take; lot.cost -= lot.cost * costRatio;
\*   realizedProceedsAll += take * t.price; toSell -= take;
\*   if (lot.size <= 0) lots.shift(); }
RECURSIVE SellLoop(_, _, _, _, _)
SellLoop(lots, toSell, price, proceeds, costRemoved) ==
  IF toSell > 0 /\ Len(lots) > 0
  THEN LET lot == lots[1]
           take == Min(lot.size, toSell)
           costTaken == (lot.cost * take) \div lot.size
           left == [size |-> lot.size - take, cost |-> lot.cost - costTaken]
           rest == IF left.size <= 0 THEN Tail(lots) ELSE <<left>> \o Tail(lots)
       IN SellLoop(rest, toSell - take, price, proceeds + take * price,
                   costRemoved + costTaken)
  ELSE [lots |-> lots, proceeds |-> proceeds, costRemoved |-> costRemoved]

RECURSIVE OpenSizeByCost(_)
\* the open size with lot.cost added in place of lot.size
OpenSizeByCost(lots) ==
  IF lots = <<>> THEN 0
  ELSE (IF Head(lots).size > 0 THEN Head(lots).cost ELSE 0) + OpenSizeByCost(Tail(lots))

RECURSIVE OpenSize(_)
\* for (const lot of lots) if (lot.size > 0) openSize += lot.size
OpenSize(lots) ==
  IF lots = <<>> THEN 0
  ELSE (IF Head(lots).size > 0 THEN Head(lots).size ELSE 0) + OpenSize(Tail(lots))

NoFifoTrade == [side |-> "NONE", asset |-> "A", size |-> 0, price |-> 0,
                before |-> <<>>, proceeds |-> 0, costRemoved |-> 0,
                others |-> [a \in Assets \ {"A"} |-> <<>>]]

FifoInit ==
  /\ lotsAllByAsset = [a \in Assets |-> <<>>]
  /\ realizedProceedsAll = 0
  /\ totalCostAll = 0
  /\ fifoCount = 0
  /\ fifoLast = NoFifoTrade

\* one iteration of `for (const t of sorted)` with t.side === 'BUY'
FifoApplyBuy ==
  \E asset \in Assets, t \in FifoBuys :
    /\ fifoCount < FifoMaxTrades
    /\ Len(lotsAllByAsset[asset]) < FifoMaxLots
    /\ lotsAllByAsset' = [lotsAllByAsset EXCEPT ![asset] = FifoBuy(@, t.size, t.price)]
    /\ totalCostAll' = totalCostAll + t.size * t.price
    /\ fifoCount' = fifoCount + 1
    /\ fifoLast' = [side |-> "BUY", asset |-> asset, size |-> t.size, price |-> t.price,
                    before |-> lotsAllByAsset[asset], proceeds |-> 0, costRemoved |-> 0,
                    others |-> [a \in Assets \ {asset} |-> lotsAllByAsset[a]]]
    /\ UNCHANGED <<realizedProceedsAll, notFifo>>

\* one iteration of `for (const t of sorted)` with t.side === 'SELL'
FifoApplySell ==
  \E asset \in Assets, size \in FifoSizes, price \in FifoPrices :
    LET r == SellLoop(lotsAllByAsset[asset], size, price, 0, 0) IN
    /\ fifoCount < FifoMaxTrades
    /\ lotsAllByAsset' = [lotsAllByAsset EXCEPT ![asset] = r.lots]
    /\ realizedProceedsAll' = realizedProceedsAll + r.proceeds
    /\ fifoCount' = fifoCount + 1
    /\ fifoLast' = [side |-> "SELL", asset |-> asset, size |-> size, price |-> price,
                    before |-> lotsAllByAsset[asset], proceeds |-> r.proceeds,
                    costRemoved |-> r.costRemoved,
                    others |-> [a \in Assets \ {asset} |-> lotsAllByAsset[a]]]
    /\ UNCHANGED <<totalCostAll, notFifo>>

FifoNext == FifoApplyBuy \/ FifoApplySell

(***************************************************************************)
(* Order confirmation (e2e-builder-test.ts)                                *)
(***************************************************************************)
\* the most iterations of the confirmation loop before its deadline
MaxPolls == 3

OrderStatus == {"NEW", "PARTIALLY_FILLED", "FILLED", "CANCELLED", "EXPIRED", "REJECTED"}
\* getOrder returned no order
Missing == "MISSING"

\* what successive getOrder calls may return for one order:
\* NEW -> PARTIALLY_FILLED* -> FILLED | CANCELLED | EXPIRED | REJECTED, or no order
StatusStepOk(a, b) ==
  \/ a = Missing
  \/ b = Missing
  \/ (a = "NEW" /\ b \in OrderStatus)
  \/ (a = "PARTIALLY_FILLED" /\ b # "NEW")
  \/ (a \in {"FILLED", "CANCELLED", "EXPIRED", "REJECTED"} /\ b = a)

StatusScripts(n) ==
  {s \in [1..n -> OrderStatus \cup {Missing}] :
     \A i \in 1..(n - 1) : StatusStepOk(s[i], s[i + 1])}

\* a loop that polls on after CANCELLED, EXPIRED or REJECTED
RECURSIVE WaitLoopPastTerminal(_, _, _)
WaitLoopPastTerminal(script, i, polls) ==
  IF i <= polls
  THEN LET order == script[i] IN
       IF order = Missing THEN [filled |-> FALSE, order |-> Missing, queries |-> i]
       ELSE IF order = "FILLED" THEN [filled |-> TRUE, order |-> order, queries |-> i]
       ELSE WaitLoopPastTerminal(script, i + 1, polls)
  ELSE [filled |-> script[i] = "FILLED", order |-> script[i], queries |-> i]

\* waitForFill: script[i] is what the i-th getOrder returns, polls is the number of
\* iterations of `while (Date.now() - start < timeoutMs)` that start before the deadline
RECURSIVE WaitLoop(_, _, _)
WaitLoop(script, i, polls) ==
  IF i <= polls
  THEN LET order == script[i] IN
       IF order = Missing THEN [filled |-> FALSE, order |-> Missing, queries |-> i]
       ELSE IF order = "FILLED" THEN [filled |-> TRUE, order |-> order, queries |-> i]
       ELSE IF order \in {"CANCELLED", "EXPIRED", "REJECTED"}
            THEN [filled |-> FALSE, order |-> order, queries |-> i]
       ELSE WaitLoop(script, i + 1, polls)
  ELSE [filled |-> script[i] = "FILLED", order |-> script[i], queries |-> i]

waitForFill(script, polls) == WaitLoop(script, 1, polls)

\* Step 5: createLimitOrder, then waitForFill; not filled => cancelOrder inside
\* try/catch, and a result with success = false and the status read last
PlaceAndConfirm(submitOk, script, polls) ==
  IF ~submitOk
  THEN [success |-> FALSE, status |-> "failed", cancelAttempted |-> FALSE]
  ELSE LET fillResult == waitForFill(script, polls) IN
       IF fillResult.filled
       THEN [success |-> TRUE, status |-> "FILLED", cancelAttempted |-> FALSE]
       ELSE [success |-> FALSE,
             status |-> IF fillResult.order = Missing THEN "unknown" ELSE fillResult.order,
             cancelAttempted |-> TRUE]

\* every result the confirmation of one order can have
ConfirmOutcomes ==
  UNION {{PlaceAndConfirm(ok, s, n) : ok \in BOOLEAN, s \in StatusScripts(n + 1)} :
         n \in 1..MaxPolls}

\* what leaves `try { await tradingService.cancelOrder(orderId) } catch { /* ok */ }`
\* when the catch is missing
TryCancelRethrows(cancelThrows) == IF cancelThrows THEN "error" ELSE "none"

\* what leaves `try { await tradingService.cancelOrder(orderId) } catch { /* ok */ }`
TryCancel(cancelThrows) == "none"

\* Step 5 with the cancel's own outcome: the result pushed to `results`, or no
\* result when an exception leaves the step
ConfirmStep(submitOk, script, polls, cancelThrows) ==
  LET r == PlaceAndConfirm(submitOk, script, polls)
      escaped == IF r.cancelAttempted THEN TryCancel(cancelThrows) ELSE "none"
  IN IF escaped = "none" THEN [recorded |-> TRUE, result |-> r]
     ELSE [recorded |-> FALSE, result |-> r]

NoConf == [phase |-> "idle"]

ConfInit == conf = NoConf

\* an order is to be placed: what createLimitOrder answers, what each getOrder will
\* answer, how many loop iterations start before the deadline, what cancelOrder does
StartConfirm ==
  /\ conf.phase = "idle"
  /\ \E submitOk \in BOOLEAN, polls \in 1..MaxPolls, cancelThrows \in BOOLEAN :
       \E script \in StatusScripts(polls + 1) :
         conf' = [phase |-> "placed", submitOk |-> submitOk, script |-> script,
                  polls |-> polls, cancelThrows |-> cancelThrows]
  /\ UNCHANGED notConf

\* Step 5 runs to its end
FinishConfirm ==
  /\ conf.phase = "placed"
  /\ conf' = [phase |-> "done", submitOk |-> conf.submitOk, script |-> conf.script,
              polls |-> conf.polls, cancelThrows |-> conf.cancelThrows,
              fill |-> waitForFill(conf.script, conf.polls),
              step |-> ConfirmStep(conf.submitOk, conf.script, conf.polls,
                                   conf.cancelThrows)]
  /\ UNCHANGED notConf

ConfNext == StartConfirm \/ FinishConfirm

(***************************************************************************)
(* Copy-trade pipeline                                                     *)
(***************************************************************************)
\* SIZE_SCALE = 0.3
SIZE_SCALE_NUM == 3
SIZE_SCALE_DEN == 10
\* MIN_TRADE_SIZE = 1 USD
MIN_TRADE_SIZE == 10000
\* MAX_PRICE_PER_SHARE = 0.96 USD
MAX_PRICE_PER_SHARE == 9600
\* MAX_SLIPPAGE = 0.05
MAX_SLIPPAGE_PCT == 5

\* bounds of the pipeline specifications
MaxTrades == 3
MaxInFlight == 2

Sides == {"BUY", "SELL"}
SrcSizes == {10, 20}
SrcPrices == {2000, 9700}
SourceTrades == [side : Sides, tokenId : Assets, size : SrcSizes, price : SrcPrices]

\* the shares the holdings map has for a token (read directly, for the properties)
SharesOf(h, tokenId) == IF tokenId \in DOMAIN h THEN h[tokenId].shares ELSE 0

\* a lookup that reads the cost basis in place of the shares
getPositionCostForToken(h, tokenId) ==
  IF tokenId \in DOMAIN h THEN h[tokenId].costBasis ELSE 0

\* a lookup that answers 1 for a token the map does not hold
getPositionSharesOrOne(h, tokenId) ==
  IF tokenId \in DOMAIN h THEN h[tokenId].shares ELSE 1

\* getPositionSharesForToken: (tokenId) => holdings.get(tokenId)?.shares ?? 0
getPositionSharesForToken(h, tokenId) ==
  IF tokenId \in DOMAIN h THEN h[tokenId].shares ELSE 0

\* Map.set / Map.delete
MapSet(h, key, val) == [k \in DOMAIN h \cup {key} |-> IF k = key THEN val ELSE h[k]]
MapDelete(h, key) == [k \in DOMAIN h \ {key} |-> h[k]]

\* trade.size * SIZE_SCALE
ComputedSize(trade) == (trade.size * SIZE_SCALE_NUM) \div SIZE_SCALE_DEN

\* a copy size that is always the computed one, whatever the fill reports
CopySizeComputed(trade, result) == ComputedSize(trade)

\* result.copySizeUsed ?? computedSize, result.copyValueUsed ?? computedValue
CopySize(trade, result) ==
  IF "copySizeUsed" \in DOMAIN result THEN result.copySizeUsed ELSE ComputedSize(trade)
CopyValue(trade, result) ==
  IF "copyValueUsed" \in DOMAIN result THEN result.copyValueUsed
  ELSE ComputedSize(trade) * trade.price

\* a holdings update whose SELL leaves the entry in the map when nothing is left
ApplyToHoldingsKeep(h, trade, result) ==
  LET key == trade.tokenId
      copySize == CopySize(trade, result)
      copyValue == CopyValue(trade, result)
  IN IF trade.side = "BUY"
     THEN IF key \in DOMAIN h
          THEN [h EXCEPT ![key] = [shares |-> @.shares + copySize,
                                   costBasis |-> @.costBasis + copyValue]]
          ELSE MapSet(h, key, [shares |-> copySize, costBasis |-> copyValue])
     ELSE IF key \in DOMAIN h /\ h[key].shares > 0
          THEN [h EXCEPT ![key] = [shares |-> IF @.shares > copySize THEN @.shares - copySize ELSE 0,
                                   costBasis |-> 0]]
          ELSE h

\* the holdings update of onTrade: BUY adds, SELL removes in proportion
ApplyToHoldings(h, trade, result) ==
  LET key == trade.tokenId
      copySize == CopySize(trade, result)
      copyValue == CopyValue(trade, result)
  IN IF trade.side = "BUY"
     THEN IF key \in DOMAIN h
          THEN [h EXCEPT ![key] = [shares |-> @.shares + copySize,
                                   costBasis |-> @.costBasis + copyValue]]
          ELSE MapSet(h, key, [shares |-> copySize, costBasis |-> copyValue])
     ELSE IF key \in DOMAIN h /\ h[key].shares > 0
          THEN LET cur == h[key]
                   \* ratio = Math.min(1, copySize / cur.shares)
                   removed == IF copySize >= cur.shares THEN cur.costBasis
                              ELSE (cur.costBasis * copySize) \div cur.shares
                   left == [shares |-> cur.shares - copySize,
                            costBasis |-> cur.costBasis - removed]
               IN IF left.shares <= 0 THEN MapDelete(h, key)
                  ELSE [h EXCEPT ![key] = left]
          ELSE h

\* an onTrade that moves the holdings whatever the result says
OnTradeAlways(h, trade, result) == ApplyToHoldings(h, trade, result)

\* onTrade: if (result.success && trade.tokenId) { ... holdings update ... }
OnTrade(h, trade, result) ==
  IF result.success THEN ApplyToHoldings(h, trade, result) ELSE h

\* maxSizePerTrade: Infinity
Infinity == 1000000

\* the options startAutoCopyTrading is called with
ScriptOptions ==
  [maxSizePerTrade |-> Infinity, maxSlippagePct |-> MAX_SLIPPAGE_PCT,
   minOrderSizeUsdc |-> MIN_TRADE_SIZE, maxPricePerShare |-> MAX_PRICE_PER_SHARE]

\* a worst price with the two signs exchanged
slippagePriceSwapped(side, price, slippagePct) ==
  IF side = "BUY" THEN (price * (100 - slippagePct)) \div 100
  ELSE (price * (100 + slippagePct)) \div 100

\* slippagePrice: BUY price * (1 + slippage), SELL price * (1 - slippage)
slippagePrice(side, price, slippagePct) ==
  IF side = "BUY" THEN (price * (100 + slippagePct)) \div 100
  ELSE (price * (100 - slippagePct)) \div 100

\* a size that ignores the ceiling
ClampSizeNot(scaled, maxSizePerTrade) == scaled

\* copySize clamped by maxSizePerTrade
ClampSize(scaled, maxSizePerTrade) == Min(scaled, maxSizePerTrade)

\* a price gate that looks at SELLs too
PriceGateAnySide(options, trade) == trade.price > options.maxPricePerShare

\* price gate: skip a BUY when price per share > maxPricePerShare (SELL limits: none)
PriceGate(options, trade) ==
  trade.side = "BUY" /\ trade.price > options.maxPricePerShare

\* a value gate that looks at SELLs too
ValueGateAnySide(options, trade, copySize) ==
  copySize * trade.price < options.minOrderSizeUsdc

\* minimum value gate: skip BUY when the copy value is below minOrderSizeUsdc; SELL
\* any size
ValueGate(options, trade, copySize) ==
  trade.side = "BUY" /\ copySize * trade.price < options.minOrderSizeUsdc

\* a gate that remembers the trade it evaluated last and rejects it the second time
RiskGateOncePerTrade(options, trade, held) ==
  IF gateFirst.trade = trade
  THEN [accept |-> FALSE, reason |-> "already evaluated"]
  ELSE [accept |-> TRUE, size |-> ClampSize(ComputedSize(trade), options.maxSizePerTrade),
        worstPrice |-> slippagePrice(trade.side, trade.price, options.maxSlippagePct)]

\* Risk Gate: size = source size * sizeScale clamped by maxSizePerTrade, a SELL
\* clamped to the held shares and skipped when none are held; a BUY skipped above
\* maxPricePerShare or below minOrderSizeUsdc; worst price = price * (1 +- slippage)
RiskGateWith(options, trade, held) ==
  LET scaled == ClampSize(ComputedSize(trade), options.maxSizePerTrade)
      copySize == IF trade.side = "SELL" THEN Min(scaled, held) ELSE scaled
  IN IF trade.side = "SELL" /\ held <= 0
     THEN [accept |-> FALSE, reason |-> "no position"]
     ELSE IF PriceGate(options, trade)
     THEN [accept |-> FALSE, reason |-> "price above max"]
     ELSE IF ValueGate(options, trade, copySize)
     THEN [accept |-> FALSE, reason |-> "value below min"]
     ELSE [accept |-> TRUE, size |-> copySize,
           worstPrice |-> slippagePrice(trade.side, trade.price, options.maxSlippagePct)]

\* the Risk Gate of the script: the options of startAutoCopyTrading
RiskGate(trade, held) == RiskGateWith(ScriptOptions, trade, held)

\* an order submission that sends the order twice
SubmitOrderTwice(o, id) == [o EXCEPT ![id] = @ + 2]

\* executeCopyTrade: one createMarketOrder call for the trade
SubmitOrder(o, id) == [o EXCEPT ![id] = @ + 1]

\* a notification that calls onTrade twice
NotifyTwice(c, id) == [c EXCEPT ![id] = @ + 2]

\* the per-trade callback: onTrade(trade, result) is called once
Notify(c, id) == [c EXCEPT ![id] = @ + 1]

NoStats == [tradesDetected |-> 0, tradesExecuted |-> 0, tradesSkipped |-> 0,
            tradesFailed |-> 0]

\* a Risk Gate rejection is counted
CountSkipped(s) == [s EXCEPT !.tradesSkipped = @ + 1]

\* a passed trade counted twice
CountDetectedTwice(s) == [s EXCEPT !.tradesDetected = @ + 2]

\* a trade that passed the Risk Gate is counted
CountDetected(s) == [s EXCEPT !.tradesDetected = @ + 1]

\* an outcome count that takes the trade back out of tradesDetected
CountOutcomeMoves(s, success) ==
  IF success THEN [s EXCEPT !.tradesExecuted = @ + 1, !.tradesDetected = @ - 1]
  ELSE [s EXCEPT !.tradesFailed = @ + 1, !.tradesDetected = @ - 1]

\* a failed attempt counted as failed and as skipped
CountOutcomeAlsoSkipped(s, success) ==
  IF success THEN [s EXCEPT !.tradesExecuted = @ + 1]
  ELSE [s EXCEPT !.tradesFailed = @ + 1, !.tradesSkipped = @ + 1]

\* an execution attempt is counted: executed on success, failed otherwise
CountOutcome(s, success) ==
  IF success THEN [s EXCEPT !.tradesExecuted = @ + 1]
  ELSE [s EXCEPT !.tradesFailed = @ + 1]

NoCallback == [id |-> 0, trade |-> [side |-> "NONE", tokenId |-> "A", size |-> 0, price |-> 0],
               result |-> [attempted |-> FALSE, success |-> FALSE],
               heldAtGate |-> 0, heldBefore |-> 0, before |-> <<>>,
               statsBefore |-> NoStats, statsAfter |-> NoStats]

CopyInit ==
  /\ holdings = <<>>
  /\ stats = NoStats
  /\ inflight = {}
  /\ nextId = 1
  /\ orders = [i \in 1..MaxTrades |-> 0]
  /\ callbacks = [i \in 1..MaxTrades |-> 0]
  /\ boughtShares = [a \in Assets |-> 0]
  /\ soldShares = [a \in Assets |-> 0]
  /\ lastCb = NoCallback

\* the copy-trade handler on a trade the Risk Gate rejects: tradesSkipped + 1 and
\* onTrade with attempted = false, no order
GateSkip(trade) ==
  LET g == RiskGate(trade, getPositionSharesForToken(holdings, trade.tokenId))
      result == [attempted |-> FALSE, success |-> FALSE, errorMsg |-> g.reason]
      after == CountSkipped(stats)
  IN /\ nextId <= MaxTrades
     /\ ~g.accept
     /\ stats' = after
     /\ holdings' = OnTrade(holdings, trade, result)
     /\ callbacks' = Notify(callbacks, nextId)
     /\ nextId' = nextId + 1
     /\ lastCb' = [id |-> nextId, trade |-> trade, result |-> result,
                   heldAtGate |-> SharesOf(holdings, trade.tokenId),
                   heldBefore |-> SharesOf(holdings, trade.tokenId),
                   before |-> holdings, statsBefore |-> stats, statsAfter |-> after]
     /\ UNCHANGED <<inflight, orders, boughtShares, soldShares>>

\* the copy-trade handler on a trade the Risk Gate passes: tradesDetected + 1 and
\* the replica order is submitted; its result is awaited
GateAccept(trade) ==
  LET g == RiskGate(trade, getPositionSharesForToken(holdings, trade.tokenId)) IN
  /\ nextId <= MaxTrades
  /\ Cardinality(inflight) < MaxInFlight
  /\ g.accept
  /\ stats' = CountDetected(stats)
  /\ orders' = SubmitOrder(orders, nextId)
  /\ inflight' = inflight \cup {[id |-> nextId, trade |-> trade, size |-> g.size,
                                 heldAtGate |-> SharesOf(holdings, trade.tokenId)]}
  /\ nextId' = nextId + 1
  /\ UNCHANGED <<holdings, callbacks, boughtShares, soldShares, lastCb>>

\* the results an awaited order can settle to: matched at once, in full (FOK) or
\* for a part (FAK, the smallest part here), or one of the results of the confirmation
ExecOutcomes(size) ==
  {[success |-> TRUE, status |-> "MATCHED", size |-> k] : k \in {1, size}}
  \cup {[success |-> c.success, status |-> c.status, size |-> IF c.success THEN size ELSE 0] :
        c \in ConfirmOutcomes}

\* the order of an in-flight trade settles: tradesExecuted or tradesFailed + 1, then
\* onTrade(trade, result)
Settle(t, o) ==
  LET trade == t.trade
      result == IF o.success
                THEN [attempted |-> TRUE, success |-> TRUE, status |-> o.status,
                      copySizeUsed |-> o.size, copyValueUsed |-> o.size * trade.price]
                ELSE [attempted |-> TRUE, success |-> FALSE, status |-> o.status,
                      errorMsg |-> o.status]
      after == CountOutcome(stats, o.success)
  IN /\ inflight' = inflight \ {t}
     /\ stats' = after
     /\ holdings' = OnTrade(holdings, trade, result)
     /\ callbacks' = Notify(callbacks, t.id)
     /\ boughtShares' = IF o.success /\ trade.side = "BUY"
                  THEN [boughtShares EXCEPT ![trade.tokenId] = @ + o.size] ELSE boughtShares
     /\ soldShares' = IF o.success /\ trade.side = "SELL"
                THEN [soldShares EXCEPT ![trade.tokenId] = @ + o.size] ELSE soldShares
     /\ lastCb' = [id |-> t.id, trade |-> trade, result |-> result,
                   heldAtGate |-> t.heldAtGate,
                   heldBefore |-> SharesOf(holdings, trade.tokenId),
                   before |-> holdings, statsBefore |-> stats, statsAfter |-> after]
     /\ UNCHANGED <<nextId, orders>>

\* DRY_RUN = process.env.DRY_RUN === 'false' ? false : true (the default)
DRY_RUN == TRUE

\* an execution that places the order in a dry run too
ExecuteCopyAlways(o, id, dryRun) == [o EXCEPT ![id] = @ + 1]

\* the order of an accepted trade is placed unless the run is a dry run
ExecuteCopy(o, id, dryRun) == IF dryRun THEN o ELSE SubmitOrder(o, id)

\* the results a dry run can report for an accepted trade: a simulated success, with
\* or without the sizes, or a failure
DryRunResults(trade, size) ==
  {[attempted |-> TRUE, success |-> TRUE, copySizeUsed |-> size,
    copyValueUsed |-> size * trade.price],
   [attempted |-> TRUE, success |-> TRUE],
   [attempted |-> TRUE, success |-> FALSE, errorMsg |-> "dry run"]}

\* the copy-trade handler on a trade the Risk Gate passes when dryRun is set:
\* tradesDetected + 1, no order, the result is reported through onTrade at once
GateAcceptDry(trade, dryRun) ==
  LET g == RiskGate(trade, getPositionSharesForToken(holdings, trade.tokenId)) IN
  /\ dryRun
  /\ nextId <= MaxTrades
  /\ g.accept
  /\ orders' = ExecuteCopy(orders, nextId, dryRun)
  /\ \E result \in DryRunResults(trade, g.size) :
       LET after == CountOutcome(CountDetected(stats), result.success) IN
       /\ stats' = after
       /\ holdings' = OnTrade(holdings, trade, result)
       /\ lastCb' = [id |-> nextId, trade |-> trade, result |-> result,
                     heldAtGate |-> SharesOf(holdings, trade.tokenId),
                     heldBefore |-> SharesOf(holdings, trade.tokenId),
                     before |-> holdings, statsBefore |-> stats, statsAfter |-> after]
  /\ callbacks' = Notify(callbacks, nextId)
  /\ nextId' = nextId + 1
  /\ UNCHANGED <<inflight, boughtShares, soldShares>>

\* (nothing of the script runs once the process has exited)
HandleSkip ==
  ~stopped /\ (\E trade \in SourceTrades : GateSkip(trade)) /\ UNCHANGED notCopy
HandleAccept ==
  ~stopped /\ (\E trade \in SourceTrades : GateAccept(trade)) /\ UNCHANGED notCopy
SettleOrder ==
  /\ ~stopped
  /\ \E t \in inflight : \E o \in ExecOutcomes(t.size) : Settle(t, o)
  /\ UNCHANGED notCopy

StopInit ==
  /\ stopped = FALSE
  /\ finalStats = NoStats

\* shutdown(): the Final Stats are read with getStats() and printed, then
\* subscription.stop(), sdk.stop() and process.exit(0)
Shutdown ==
  /\ ~stopped
  /\ finalStats' = stats
  /\ stopped' = TRUE
  /\ UNCHANGED <<copyVars, notStop>>

\* trades handled while earlier orders may still be awaited (overlapping ticks)
CopyNext == HandleSkip \/ HandleAccept \/ SettleOrder

\* each trade handled only after the trade before it has settled
SeqHandleSkip == inflight = {} /\ HandleSkip
SeqHandleAccept == inflight = {} /\ HandleAccept
SeqNext == SeqHandleSkip \/ SeqHandleAccept \/ SettleOrder

\* the trades one tick hands on, in the order they are handled
TradesPerTick == 2
\* the tick whose callback handles the trade with this number
TickOfTrade(id) == ((id - 1) \div TradesPerTick) + 1

\* a callback that starts every order of its tick without awaiting the one before
TickIdleAlways(fl, id) == TRUE

\* for (const activity of newActivities) { await this.executeCopyTrade(activity) }:
\* the callback of a tick is at its next trade when no order of that tick is awaited
TickIdle(fl, id) == \A t \in fl : TickOfTrade(t.id) # TickOfTrade(id)

\* the callbacks of the ticks: each handles its trades one after the other, while the
\* callback of another tick may be awaiting an order
TickHandleSkip == TickIdle(inflight, nextId) /\ HandleSkip
TickHandleAccept == TickIdle(inflight, nextId) /\ HandleAccept
TickNext == TickHandleSkip \/ TickHandleAccept \/ SettleOrder

\* the script started with DRY_RUN
DryHandleSkip == DRY_RUN /\ HandleSkip
DryHandleAccept ==
  ~stopped /\ (\E trade \in SourceTrades : GateAcceptDry(trade, DRY_RUN)) /\ UNCHANGED notCopy
DryNext == DryHandleSkip \/ DryHandleAccept

\* the script until "stop", SIGINT or SIGTERM
StopNext == SeqHandleSkip \/ SeqHandleAccept \/ SettleOrder \/ Shutdown

(***************************************************************************)
(* Trade discovery: the poll loop and the txHash dedup                     *)
(* (pollTargetWallets / startCopyTrading of the copy-trading document,     *)
(* seenTxHashes of the SmartMoneyService refactor document)                *)
(***************************************************************************)
MaxTx == 2
MaxClock == 1
MaxTicks == 2
\* the cap of seenTxHashes (1000 in the service) and the number of hashes removed
\* beyond it (500 in the service: half the cap; an odd cap rounds up)
SeenCap == 1
EvictCount == (SeenCap + 1) \div 2

\* targetWallets, in the order of the array
Wallets == <<"w1", "w2">>
WalletSet == {Wallets[i] : i \in 1..Len(Wallets)}
TxHashes == 1..MaxTx
NoActivity == [timestamp |-> -1, wallets |-> {}]

\* the activities of `wallet` with timestamp >= start, as records
Matching(wallet, start) ==
  {[transactionHash |-> h, timestamp |-> activity[h].timestamp] :
     h \in {x \in TxHashes : wallet \in activity[x].wallets /\ activity[x].timestamp >= start}}

\* the activities of S, the latest first; of two with one timestamp the one made
\* later (the larger hash here) comes first
RECURSIVE DescList(_)
DescList(S) ==
  IF S = {} THEN <<>>
  ELSE LET x == CHOOSE y \in S : \A z \in S :
                  \/ y.timestamp > z.timestamp
                  \/ y.timestamp = z.timestamp /\ y.transactionHash >= z.transactionHash
       IN <<x>> \o DescList(S \ {x})

\* dataApi.getActivity(wallet, {type: 'TRADE', start, sortBy: 'TIMESTAMP',
\* sortDirection: 'DESC'})
getActivity(wallet, start) == DescList(Matching(wallet, start))

\* results.flat()
RECURSIVE Flat(_, _)
Flat(results, i) ==
  IF i > Len(results) THEN <<>> ELSE results[i].list \o Flat(results, i + 1)

\* where a stable sort by (a, b) => b.timestamp - a.timestamp puts x into a sorted list
RECURSIVE InsertDesc(_, _)
InsertDesc(sorted, x) ==
  IF sorted = <<>> THEN <<x>>
  ELSE IF Head(sorted).timestamp >= x.timestamp
       THEN <<Head(sorted)>> \o InsertDesc(Tail(sorted), x)
       ELSE <<x>> \o sorted

\* .sort((a, b) => b.timestamp - a.timestamp)
RECURSIVE SortDesc(_)
SortDesc(list) ==
  IF list = <<>> THEN <<>>
  ELSE InsertDesc(SortDesc(SubSeq(list, 1, Len(list) - 1)), list[Len(list)])

\* seenTxHashes.has(hash)
Has(seen, hash) == \E i \in 1..Len(seen) : seen[i] = hash

\* a dedup loop that never records what it hands on
RECURSIVE DedupLoopNoAdd(_, _, _, _)
DedupLoopNoAdd(activities, seen, out, removed) ==
  IF activities = <<>> THEN [seen |-> seen, out |-> out, removed |-> removed]
  ELSE IF Has(seen, Head(activities).transactionHash)
       THEN DedupLoopNoAdd(Tail(activities), seen, out, removed)
       ELSE DedupLoopNoAdd(Tail(activities), seen,
                           Append(out, Head(activities).transactionHash), removed)

\* a dedup loop that removes the hashes added last once the set is over the cap
RECURSIVE DedupLoopEvictNewest(_, _, _, _)
DedupLoopEvictNewest(activities, seen, out, removed) ==
  IF activities = <<>> THEN [seen |-> seen, out |-> out, removed |-> removed]
  ELSE LET hash == Head(activities).transactionHash
           added == Append(seen, hash)
           over == Len(added) > SeenCap
           keep == Len(added) - EvictCount
       IN IF Has(seen, hash)
          THEN DedupLoopEvictNewest(Tail(activities), seen, out, removed)
          ELSE DedupLoopEvictNewest(Tail(activities),
                                    IF over THEN SubSeq(added, 1, keep) ELSE added,
                                    Append(out, hash),
                                    IF over THEN removed \o SubSeq(added, keep + 1, Len(added))
                                    ELSE removed)

\* for (const activity of activities): skip a seen hash, else add it, remove the
\* first EvictCount hashes once the set is larger than SeenCap, hand the trade on
RECURSIVE DedupLoop(_, _, _, _)
DedupLoop(activities, seen, out, removed) ==
  IF activities = <<>> THEN [seen |-> seen, out |-> out, removed |-> removed]
  ELSE LET hash == Head(activities).transactionHash
           added == Append(seen, hash)
           over == Len(added) > SeenCap
       IN IF Has(seen, hash)
          THEN DedupLoop(Tail(activities), seen, out, removed)
          ELSE DedupLoop(Tail(activities),
                         IF over THEN SubSeq(added, EvictCount + 1, Len(added)) ELSE added,
                         Append(out, hash),
                         IF over THEN removed \o SubSeq(added, 1, EvictCount) ELSE removed)

\* number of places of a list holding x
Count(list, x) == Cardinality({i \in 1..Len(list) : list[i] = x})

NoTick == [failed |-> {}, fresh |-> {}, out |-> <<>>, now |-> 0, start |-> 0]

PollInit ==
  /\ clock = 0
  /\ activity = [h \in TxHashes |-> NoActivity]
  /\ lastCheckTimestamp = 0
  /\ seenTxHashes = <<>>
  /\ pendingTicks = {}
  /\ tickCount = 0
  /\ handed = [h \in TxHashes |-> 0]
  /\ evicted = [h \in TxHashes |-> 0]
  /\ fed = [h \in TxHashes |-> 0]
  /\ pollErrors = 0
  /\ lastTick = NoTick

\* a second passes
ClockTick ==
  /\ clock < MaxClock
  /\ clock' = clock + 1
  /\ UNCHANGED <<activity, lastCheckTimestamp, seenTxHashes, pendingTicks, tickCount,
                 handed, evicted, fed, pollErrors, lastTick, notPoll>>

\* a trade is made that the feed lists for one or for several watched wallets
SourceTrade ==
  \E h \in TxHashes, ws \in SUBSET WalletSet :
    /\ ws # {}
    /\ activity[h] = NoActivity
    /\ \A x \in TxHashes : x < h => activity[x] # NoActivity
    /\ activity' = [activity EXCEPT ![h] = [timestamp |-> clock, wallets |-> ws]]
    /\ UNCHANGED <<clock, lastCheckTimestamp, seenTxHashes, pendingTicks, tickCount,
                   handed, evicted, fed, pollErrors, lastTick, notPoll>>

\* the interval callback starts: pollTargetWallets reads now and start and sends one
\* query per wallet (the queries of the tick before have been answered)
TickStart ==
  /\ tickCount < MaxTicks
  /\ pendingTicks = {}
  /\ tickCount' = tickCount + 1
  /\ pendingTicks' = pendingTicks \cup
        {[id |-> tickCount + 1, now |-> clock, start |-> lastCheckTimestamp]}
  /\ UNCHANGED <<clock, activity, lastCheckTimestamp, seenTxHashes, handed, evicted, fed,
                 pollErrors, lastTick, notPoll>>

\* what the query of one wallet can come back with: a list, or a rejection
WalletResponses(wallet, start) ==
  {[ok |-> TRUE, list |-> getActivity(wallet, start)], [ok |-> FALSE, list |-> <<>>]}

\* what the queries of a tick can come back with: one response per wallet, from
\* the i-th wallet on
RECURSIVE Responses(_, _)
Responses(start, i) ==
  IF i > Len(Wallets) THEN {<<>>}
  ELSE {<<x>> \o rest : x \in WalletResponses(Wallets[i], start),
                        rest \in Responses(start, i + 1)}

\* the hashes in the answers of the wallets whose query succeeded
Answered(r) ==
  UNION {{r[w].list[i].transactionHash : i \in 1..Len(r[w].list)} :
         w \in {x \in 1..Len(r) : r[x].ok}}

\* a count of at most 2
Capped(n) == IF n > 2 THEN 2 ELSE n

\* a timestamp that advances to the latest trade returned
NextCheckTimestampMax(now, merged) ==
  IF merged = <<>> THEN now ELSE merged[1].timestamp

\* this.lastCheckTimestamp = now
NextCheckTimestamp(now, merged) == now

\* Promise.all resolves: lastCheckTimestamp = now, the lists are flattened and sorted,
\* and the new trades are handed on through the dedup loop
PollResolved(t, r) ==
  LET merged == SortDesc(Flat(r, 1))
      hashes == [i \in 1..Len(merged) |-> merged[i].transactionHash]
      d == DedupLoop(merged, seenTxHashes, <<>>, <<>>)
  IN /\ \A w \in 1..Len(r) : r[w].ok
     /\ pendingTicks' = pendingTicks \ {t}
     /\ lastCheckTimestamp' = NextCheckTimestamp(t.now, merged)
     /\ seenTxHashes' = d.seen
     /\ handed' = [h \in TxHashes |-> handed[h] + Count(d.out, h)]
     /\ evicted' = [h \in TxHashes |-> evicted[h] + Count(d.removed, h)]
     /\ fed' = [h \in TxHashes |-> Capped(fed[h] + Count(hashes, h))]
     /\ lastTick' = [failed |-> {},
                     fresh |-> {h \in Answered(r) : ~Has(seenTxHashes, h)},
                     out |-> d.out, now |-> t.now, start |-> t.start]
     /\ UNCHANGED <<clock, activity, tickCount, pollErrors>>

\* Promise.all rejects because one query did: the await throws past the rest of
\* pollTargetWallets and of the try block into the catch of the interval callback
PollRejected(t, r) ==
  /\ \E w \in 1..Len(r) : ~r[w].ok
  /\ pendingTicks' = pendingTicks \ {t}
  /\ pollErrors' = pollErrors + 1
  /\ lastTick' = [failed |-> {Wallets[w] : w \in {x \in 1..Len(r) : ~r[x].ok}},
                  fresh |-> {h \in Answered(r) : ~Has(seenTxHashes, h)},
                  out |-> <<>>, now |-> t.now, start |-> t.start]
  /\ UNCHANGED <<clock, activity, lastCheckTimestamp, seenTxHashes, tickCount,
                 handed, evicted, fed>>

TickResolve ==
  (\E t \in pendingTicks : \E r \in Responses(t.start, 1) : PollResolved(t, r))
  /\ UNCHANGED <<notPoll>>

TickReject ==
  (\E t \in pendingTicks : \E r \in Responses(t.start, 1) : PollRejected(t, r))
  /\ UNCHANGED <<notPoll>>

(***************************************************************************)
(* The poll loop without an end: ticks follow each other for as long as    *)
(* the run is active; of what is kept for the properties only whether a    *)
(* trade was handed on, what the last tick handed on and what was cut      *)
(***************************************************************************)
\* limit: 100 of the query, scaled: the answer holds the newest FeedLimit activities
FeedLimit == 1

\* the first n elements of a list
Take(list, n) == SubSeq(list, 1, Min(n, Len(list)))

\* dataApi.getActivity(wallet, {type: 'TRADE', start, limit, sortBy: 'TIMESTAMP',
\* sortDirection: 'DESC'}): the newest `limit` activities of the window
getActivityLimit(wallet, start, limit) == Take(getActivity(wallet, start), limit)

LimitedResponses(wallet, start) ==
  {[ok |-> TRUE, list |-> getActivityLimit(wallet, start, FeedLimit)],
   [ok |-> FALSE, list |-> <<>>]}

RECURSIVE ResponsesLimit(_, _)
ResponsesLimit(start, i) ==
  IF i > Len(Wallets) THEN {<<>>}
  ELSE {<<x>> \o rest : x \in LimitedResponses(Wallets[i], start),
                        rest \in ResponsesLimit(start, i + 1)}

\* the trades that an answered tick has left out so far because of the limit
CutSoFar == IF "cut" \in DOMAIN lastTick THEN lastTick.cut ELSE {}

\* the trades made in the window of a query from `start`
InWindow(start) ==
  {h \in TxHashes : activity[h] # NoActivity /\ activity[h].timestamp >= start}

\* a rejected tick that moves the timestamp on to its own now
RejectedCheckTimestampNow(last, now) == now

\* the await of Promise.all throws: the assignment behind it is not reached
RejectedCheckTimestamp(last, now) == last

\* the interval callback starts, for as long as the run is active
LiveTickStart ==
  /\ pendingTicks = {}
  /\ pendingTicks' = {[id |-> 1, now |-> clock, start |-> lastCheckTimestamp]}
  /\ UNCHANGED <<clock, activity, lastCheckTimestamp, seenTxHashes, tickCount, handed,
                 evicted, fed, pollErrors, lastTick, notPoll>>

\* Promise.all resolves: as PollResolved, on answers cut at the limit
LiveTickResolve ==
  /\ \E t \in pendingTicks : \E r \in ResponsesLimit(t.start, 1) :
       LET merged == SortDesc(Flat(r, 1))
           d == DedupLoop(merged, seenTxHashes, <<>>, <<>>)
       IN /\ \A w \in 1..Len(r) : r[w].ok
          /\ pendingTicks' = pendingTicks \ {t}
          /\ lastCheckTimestamp' = NextCheckTimestamp(t.now, merged)
          /\ seenTxHashes' = d.seen
          /\ handed' = [h \in TxHashes |-> IF handed[h] + Count(d.out, h) >= 1 THEN 1 ELSE 0]
          /\ lastTick' = [failed |-> {}, fresh |-> {}, out |-> d.out, now |-> 0, start |-> 0,
                          cut |-> CutSoFar \cup (InWindow(t.start) \ Answered(r)),
                          retried |-> IF "retried" \in DOMAIN lastTick /\ lastTick.failed # {}
                                      THEN lastTick.retried ELSE {}]
  /\ UNCHANGED <<clock, activity, tickCount, evicted, fed, pollErrors, notPoll>>

\* Promise.all rejects: as PollRejected; the trades of the window stay to be queried
LiveTickReject ==
  /\ \E t \in pendingTicks : \E r \in ResponsesLimit(t.start, 1) :
       /\ \E w \in 1..Len(r) : ~r[w].ok
       /\ pendingTicks' = pendingTicks \ {t}
       /\ lastCheckTimestamp' = RejectedCheckTimestamp(lastCheckTimestamp, t.now)
       /\ lastTick' = [failed |-> {Wallets[w] : w \in {x \in 1..Len(r) : ~r[x].ok}},
                       fresh |-> {}, out |-> <<>>, now |-> 0, start |-> 0, cut |-> CutSoFar,
                       retried |-> {h \in InWindow(t.start) : handed[h] = 0}]
  /\ UNCHANGED <<clock, activity, seenTxHashes, tickCount, handed, evicted, fed, pollErrors,
                 notPoll>>

LiveNext == ClockTick \/ SourceTrade \/ LiveTickStart \/ LiveTickResolve \/ LiveTickReject

\* setInterval fires again while the queries of an earlier tick may still be pending:
\* the callback is async and the timer does not wait for it
TickStartOverlapping ==
  /\ tickCount < MaxTicks
  /\ tickCount' = tickCount + 1
  /\ pendingTicks' = pendingTicks \cup
        {[id |-> tickCount + 1, now |-> clock, start |-> lastCheckTimestamp]}
  /\ UNCHANGED <<clock, activity, lastCheckTimestamp, seenTxHashes, handed, evicted, fed,
                 pollErrors, lastTick, notPoll>>

OverlapNext == ClockTick \/ SourceTrade \/ TickStartOverlapping \/ TickResolve \/ TickReject

PollNext == ClockTick \/ SourceTrade \/ TickStart \/ TickResolve \/ TickReject

(***************************************************************************)
(* The poll timer: the interval as a function of the watched wallets       *)
(* (startPolling of the SmartMoneyService refactor document)               *)
(***************************************************************************)
\* Data API rate limit, requests per minute
FEED_RATE_BUDGET == 300
MaxWallets == 55
MaxSubscribeCalls == 6
\* the wallets one subscription can add to the watch set
MaxAdded == 10

\* startPolling: 1-10 wallets 5 s, 11-30 wallets 7 s, 31+ wallets 10 s
PollIntervalFor(n) == IF n <= 10 THEN 5 ELSE IF n <= 30 THEN 7 ELSE 10

\* a startPolling that leaves a timer that is already set as it is
startPollingOnce(isPolling, current, n) ==
  IF isPolling THEN current ELSE PollIntervalFor(n)

\* startPolling(): the interval of the timer it leaves, set for n watched wallets
startPolling(isPolling, current, n) == PollIntervalFor(n)

TimerInit ==
  /\ walletCount = 0
  /\ pollInterval = PollIntervalFor(0)
  /\ subscribeCalls = 0
  /\ polling = FALSE

\* subscribeSmartMoneyTrades: the wallets of the subscription that are not watched
\* yet join targetWallets, then startPolling() sets the interval for the new count
Subscribe ==
  /\ subscribeCalls < MaxSubscribeCalls
  /\ \E added \in 1..MaxAdded :
       /\ walletCount + added <= MaxWallets
       /\ walletCount' = walletCount + added
       /\ pollInterval' = startPolling(polling, pollInterval, walletCount + added)
  /\ polling' = TRUE
  /\ subscribeCalls' = subscribeCalls + 1
  /\ UNCHANGED notTimer

\* a subscription whose wallets are all watched already
SubscribeSame ==
  /\ subscribeCalls < MaxSubscribeCalls
  /\ walletCount >= 1
  /\ pollInterval' = startPolling(polling, pollInterval, walletCount)
  /\ polling' = TRUE
  /\ subscribeCalls' = subscribeCalls + 1
  /\ UNCHANGED <<walletCount, notTimer>>

\* wallets leave the watch set while others stay: the interval is set again for the
\* wallets that stay
RemoveWallets ==
  /\ polling
  /\ subscribeCalls < MaxSubscribeCalls
  /\ \E removed \in 1..MaxAdded :
       /\ walletCount - removed >= 1
       /\ walletCount' = walletCount - removed
       /\ pollInterval' = startPolling(polling, pollInterval, walletCount - removed)
  /\ subscribeCalls' = subscribeCalls + 1
  /\ UNCHANGED <<polling, notTimer>>

\* disconnect(): stopPolling(), this.targetWallets = []
DisconnectPolling ==
  /\ polling
  /\ polling' = FALSE
  /\ walletCount' = 0
  /\ UNCHANGED <<pollInterval, subscribeCalls, notTimer>>

TimerNext == Subscribe \/ SubscribeSame \/ RemoveWallets \/ DisconnectPolling

(***************************************************************************)
(* The copy-trading loop: interval callbacks and the orders they await     *)
(* (startCopyTrading / executeCopyTrade of the copy-trading document)      *)
(***************************************************************************)
MaxLoopTicks == 2
\* the BUY activities one poll can return
MaxPerTick == 2

\* a timer that fires only when no callback is running
TimerFiresWhenIdle(running) == running = {}

\* setInterval(async () => { ... }, 5000): the timer fires whatever the callbacks
\* started before are doing
TimerFires(running) == TRUE

LoopInit ==
  /\ loopTicks = 0
  /\ loopCallbacks = {}
  /\ loopCompleted = [i \in 1..MaxLoopTicks |-> 0]

\* the timer fires: the callback polls and has `todo` BUY activities to copy, one
\* after the other
LoopTick ==
  /\ loopTicks < MaxLoopTicks
  /\ TimerFires(loopCallbacks)
  /\ loopTicks' = loopTicks + 1
  /\ \E todo \in 0..MaxPerTick :
       loopCallbacks' = IF todo = 0 THEN loopCallbacks
                        ELSE loopCallbacks \cup {[id |-> loopTicks + 1, todo |-> todo,
                                                  awaiting |-> FALSE, polls |-> 0]}
  /\ UNCHANGED <<loopCompleted, notLoop>>

\* `await this.executeCopyTrade(activity)`: the order for the next activity of the
\* callback is sized and submitted, and the callback waits for its result
LoopSubmit(cb) ==
  /\ ~cb.awaiting
  /\ cb.todo > 0
  /\ loopCallbacks' = (loopCallbacks \ {cb}) \cup {[cb EXCEPT !.awaiting = TRUE]}
  /\ UNCHANGED <<loopTicks, loopCompleted, notLoop>>

\* the order is read and is not in a terminal status yet
LoopPoll(cb) ==
  /\ cb.awaiting
  /\ cb.polls < MaxPolls
  /\ loopCallbacks' = (loopCallbacks \ {cb}) \cup {[cb EXCEPT !.polls = @ + 1]}
  /\ UNCHANGED <<loopTicks, loopCompleted, notLoop>>

\* the awaited order resolves (filled, terminated or timed out): the callback goes
\* on to its next activity, or ends
LoopResolve(cb) ==
  /\ cb.awaiting
  /\ loopCallbacks' = (loopCallbacks \ {cb}) \cup
        (IF cb.todo = 1 THEN {}
         ELSE {[cb EXCEPT !.todo = @ - 1, !.awaiting = FALSE, !.polls = 0]})
  /\ loopCompleted' = [loopCompleted EXCEPT ![cb.id] = @ + 1]
  /\ UNCHANGED <<loopTicks, notLoop>>

LoopSubmitOrder == \E cb \in loopCallbacks : LoopSubmit(cb)
LoopPollOrder == \E cb \in loopCallbacks : LoopPoll(cb)
LoopResolveOrder == \E cb \in loopCallbacks : LoopResolve(cb)

LoopNext == LoopTick \/ LoopSubmitOrder \/ LoopPollOrder \/ LoopResolveOrder

(***************************************************************************)
(* Subscriptions: the Classifier of each subscription and unsubscribe      *)
(* (subscribeSmartMoneyTrades of the SmartMoneyService refactor document)  *)
(***************************************************************************)
SubIds == {1, 2}
Traders == {"w1", "w2"}
\* options.filterAddresses is not set
NoFilter == {"*"}
SubOptionSets ==
  [filterAddresses : {NoFilter, {"w1"}}, minSize : {0, 10}, smartMoneyOnly : BOOLEAN]
SmartMoneyTrades == [traderAddress : Traders, size : {5, 50}, isSmartMoney : BOOLEAN]

\* a handler that passes a trade on when any one of the filters set lets it through
filteredHandlerAny(options, trade) ==
  \/ (options.filterAddresses = NoFilter /\ options.minSize = 0 /\ ~options.smartMoneyOnly)
  \/ (options.filterAddresses # NoFilter /\ trade.traderAddress \in options.filterAddresses)
  \/ (options.minSize # 0 /\ trade.size >= options.minSize)
  \/ (options.smartMoneyOnly /\ trade.isSmartMoney)

\* filteredHandler: TRUE when it reaches onTrade(trade); the address filter, the
\* size filter and the Smart Money filter each return before that
filteredHandler(options, trade) ==
  IF options.filterAddresses # NoFilter /\ trade.traderAddress \notin options.filterAddresses
  THEN FALSE
  ELSE IF options.minSize # 0 /\ trade.size < options.minSize THEN FALSE
  ELSE IF options.smartMoneyOnly /\ ~trade.isSmartMoney THEN FALSE
  ELSE TRUE

\* an unsubscribe() that leaves the handler registered
RemoveHandlerNot(handlers, ids) == handlers

\* unsubscribe(): this.tradeHandlers.delete(filteredHandler)
RemoveHandler(handlers, ids) == handlers \ ids

\* an emit that stops behind the first handler of the set
EmitToFirst(handlers) ==
  IF handlers = {} THEN <<>>
  ELSE <<CHOOSE id \in handlers : \A x \in handlers : id <= x>>

\* the trade is emitted to the handlers of this.tradeHandlers, one call for each, in
\* the order they were added: the sequence of the handlers invoked
RECURSIVE EmitTo(_)
EmitTo(handlers) ==
  IF handlers = {} THEN <<>>
  ELSE LET id == CHOOSE x \in handlers : \A y \in handlers : x <= y
       IN <<id>> \o EmitTo(handlers \ {id})

NoEmit == [trade |-> [traderAddress |-> "w1", size |-> 0, isSmartMoney |-> FALSE],
           registered |-> {}, called |-> {}, unsubscribedBefore |-> {}, waiting |-> 0,
           invoked |-> <<>>]

SubInit ==
  /\ tradeHandlers = {}
  /\ subOptions = <<>>
  /\ unsubscribed = {}
  /\ remaining = 0
  /\ lastEmit = NoEmit

\* subscribeSmartMoneyTrades(onTrade, options): the filteredHandler is registered
SubscribeTrades ==
  \E id \in SubIds, options \in SubOptionSets :
    /\ id \notin DOMAIN subOptions
    /\ \A x \in SubIds : x < id => x \in DOMAIN subOptions
    /\ subOptions' = [k \in DOMAIN subOptions \cup {id} |->
                        IF k = id THEN options ELSE subOptions[k]]
    /\ tradeHandlers' = tradeHandlers \cup {id}
    /\ UNCHANGED <<unsubscribed, remaining, lastEmit, notSub>>

\* subscription.unsubscribe() called outside the callbacks (the script's timeout)
Unsubscribe ==
  \E id \in tradeHandlers :
    /\ tradeHandlers' = RemoveHandler(tradeHandlers, {id})
    /\ unsubscribed' = unsubscribed \cup {id}
    /\ UNCHANGED <<subOptions, remaining, lastEmit, notSub>>

\* a tick found new trades to hand on
EmitTickStart ==
  /\ remaining = 0
  /\ \E n \in 1..MaxPerTick : remaining' = n
  /\ UNCHANGED <<tradeHandlers, subOptions, unsubscribed, lastEmit, notSub>>

\* the next trade of the tick is handed to every registered handler; the callbacks
\* in `leaving` call their own subscription.unsubscribe() (tradeCount >= maxTrades)
EmitTrade ==
  /\ remaining > 0
  /\ \E trade \in SmartMoneyTrades :
       LET invoked == EmitTo(tradeHandlers)
           called == {id \in tradeHandlers :
                        /\ \E i \in 1..Len(invoked) : invoked[i] = id
                        /\ filteredHandler(subOptions[id], trade)}
       IN
       \E leaving \in SUBSET called :
         /\ tradeHandlers' = RemoveHandler(tradeHandlers, leaving)
         /\ unsubscribed' = unsubscribed \cup leaving
         /\ lastEmit' = [trade |-> trade, registered |-> tradeHandlers, called |-> called,
                         unsubscribedBefore |-> unsubscribed, waiting |-> remaining - 1,
                         invoked |-> invoked]
  /\ remaining' = remaining - 1
  /\ UNCHANGED <<subOptions, notSub>>

SubNext == SubscribeTrades \/ Unsubscribe \/ EmitTickStart \/ EmitTrade

(***************************************************************************)
(* The Risk Gate over its options                                          *)
(***************************************************************************)
GateOptionSets ==
  [maxSizePerTrade : {Infinity, 4}, maxSlippagePct : {0, 5, 99},
   minOrderSizeUsdc : {MIN_TRADE_SIZE}, maxPricePerShare : {MAX_PRICE_PER_SHARE}]
GateTrades == [side : Sides, tokenId : {"A"}, size : SrcSizes, price : SrcPrices]
GateHeld == {0, 2, 10}

NoEvaluation == [trade |-> [side |-> "NONE", tokenId |-> "A", size |-> 0, price |-> 0]]

GateInit ==
  /\ gateFirst = NoEvaluation
  /\ gateSecond = NoEvaluation

\* the Risk Gate is evaluated on a trade
EvaluateGate ==
  /\ \E options \in GateOptionSets, trade \in GateTrades, held \in GateHeld :
       gateFirst' = [trade |-> trade, options |-> options, held |-> held,
                     decision |-> RiskGateWith(options, trade, held)]
  /\ gateSecond' = NoEvaluation
  /\ UNCHANGED notGate

\* the same trade is evaluated once more with the same options
EvaluateGateAgain ==
  /\ gateFirst # NoEvaluation
  /\ \E held \in GateHeld :
       gateSecond' = [trade |-> gateFirst.trade, options |-> gateFirst.options,
                      held |-> held,
                      decision |-> RiskGateWith(gateFirst.options, gateFirst.trade, held)]
  /\ UNCHANGED <<gateFirst, notGate>>

GateNext == EvaluateGate \/ EvaluateGateAgain

(***************************************************************************)
(* The seen set: insertion order and removal                               *)
(***************************************************************************)
MaxSeenHashes == 4
MaxInserts == 4
SeenHashes == 1..MaxSeenHashes

SeenInit ==
  /\ inserted = <<>>
  /\ removedLog = <<>>

\* one activity goes through the dedup loop
SeeActivity ==
  \E h \in SeenHashes :
    LET d == DedupLoop(<<[transactionHash |-> h, timestamp |-> 0]>>, seenTxHashes, <<>>, <<>>) IN
    /\ Len(inserted) < MaxInserts
    /\ ~Has(seenTxHashes, h)
    /\ seenTxHashes' = d.seen
    /\ inserted' = inserted \o d.out
    /\ removedLog' = removedLog \o d.removed
    /\ UNCHANGED <<clock, activity, lastCheckTimestamp, pendingTicks, tickCount,
                   handed, evicted, fed, pollErrors, lastTick, notSeen>>

\* an activity whose hash is in the set goes through the dedup loop
SeeActivityAgain ==
  \E h \in SeenHashes :
    LET d == DedupLoop(<<[transactionHash |-> h, timestamp |-> 0]>>, seenTxHashes, <<>>, <<>>) IN
    /\ Has(seenTxHashes, h)
    /\ seenTxHashes' = d.seen
    /\ inserted' = inserted \o d.out
    /\ removedLog' = removedLog \o d.removed
    /\ UNCHANGED <<clock, activity, lastCheckTimestamp, pendingTicks, tickCount,
                   handed, evicted, fed, pollErrors, lastTick, notSeen>>

\* disconnect(): this.seenTxHashes.clear()
Disconnect ==
  /\ seenTxHashes # <<>>
  /\ seenTxHashes' = <<>>
  /\ inserted' = <<>>
  /\ removedLog' = <<>>
  /\ UNCHANGED <<clock, activity, lastCheckTimestamp, pendingTicks, tickCount,
                 handed, evicted, fed, pollErrors, lastTick, notSeen>>

SeenNext == SeeActivity \/ SeeActivityAgain \/ Disconnect

(***************************************************************************)
(* waitForFill against the clock (times in seconds)                        *)
(***************************************************************************)
\* await sleep(2000)
SLEEP_S == 2
\* timeoutMs: 15000 by default, 10000 in Step 7
MaxTimeout == 15
\* getOrder calls of one waitForFill the model follows
MaxQueries == 9
\* the time one iteration takes beyond the sleep: the getOrder round trip and the
\* lateness of the timer
ExtraDelays == {0, 1, 2}

\* an iteration that does not sleep
WaitDelayNoSleep(extra) == extra

\* the time from the start of one iteration to the start of the next
WaitDelay(extra) == SLEEP_S + extra

\* Math.ceil(timeout / SLEEP_S)
CeilPolls(timeout) == (timeout + SLEEP_S - 1) \div SLEEP_S

NoWait == [phase |-> "idle"]

WaitInit == wait = NoWait

\* waitForFill is called: const start = Date.now()
WaitStart ==
  /\ wait.phase = "idle"
  /\ \E timeout \in 1..MaxTimeout :
       wait' = [phase |-> "loop", timeout |-> timeout, elapsed |-> 0, loopQueries |-> 0,
                finalQueries |-> 0, last |-> "NONE", filled |-> FALSE]
  /\ UNCHANGED notWait

\* one iteration of while (Date.now() - start < timeoutMs): getOrder, return on no
\* order, FILLED, CANCELLED, EXPIRED or REJECTED, else sleep
WaitPoll ==
  /\ wait.phase = "loop"
  /\ wait.elapsed < wait.timeout
  /\ wait.loopQueries < MaxQueries
  /\ \E order \in OrderStatus \cup {Missing}, extra \in ExtraDelays :
       /\ wait.last # "NONE" => StatusStepOk(wait.last, order)
       /\ wait' =
            IF order \in {Missing, "FILLED", "CANCELLED", "EXPIRED", "REJECTED"}
            THEN [wait EXCEPT !.phase = "returned", !.loopQueries = @ + 1,
                              !.last = order, !.filled = (order = "FILLED")]
            ELSE [wait EXCEPT !.loopQueries = @ + 1, !.last = order,
                              !.elapsed = Min(@ + WaitDelay(extra), wait.timeout)]
  /\ UNCHANGED notWait

\* the loop condition fails: the last getOrder and the return
WaitDeadline ==
  /\ wait.phase = "loop"
  /\ wait.elapsed >= wait.timeout
  /\ \E order \in OrderStatus \cup {Missing} :
       /\ wait.last # "NONE" => StatusStepOk(wait.last, order)
       /\ wait' = [wait EXCEPT !.phase = "timedOut", !.finalQueries = @ + 1,
                               !.last = order, !.filled = (order = "FILLED")]
  /\ UNCHANGED notWait

WaitNext == WaitStart \/ WaitPoll \/ WaitDeadline

(***************************************************************************)
(* RelayerService: the operations on top of the relay client               *)
(***************************************************************************)
MaxRelayCalls == 2

\* enum RelayerState
RelayerStates == {"STATE_NEW", "STATE_EXECUTED", "STATE_MINED", "STATE_CONFIRMED",
                  "STATE_FAILED", "STATE_INVALID"}
\* a field of the transaction that is undefined
Undefined == "undefined"

\* what the relay client can do with a call: relayClient.deploy() / execute() or
\* response.wait() throws (an Error with a message, or a value that is no Error),
\* wait() resolves to no transaction, or to a transaction in one of the states
RelayOutcomes ==
  {[kind |-> "throws", isError |-> TRUE, message |-> <<"relayer unreachable">>],
   [kind |-> "throws", isError |-> FALSE, message |-> <<>>],
   [kind |-> "none"]}
  \cup {[kind |-> "tx", state |-> st, to |-> to, transactionHash |-> "0xhash"] :
          st \in RelayerStates, to \in {Undefined, "", "0xSafe"}}

\* the arguments cannot be encoded (parseUnits / encodeFunctionData throw before the
\* try block): the relay client is not called
NotEncoded == [kind |-> "notEncoded"]
\* the promise of the operation rejects
Rejects == [rejected |-> TRUE]

\* error instanceof Error ? error.message : 'Unknown error'
ErrorMessageOf(o) == IF o.isError THEN o.message ELSE <<"Unknown error">>

\* a deploySafe that takes whatever tx.to holds as the Safe address
deploySafeAnyAddress(o) ==
  IF o.kind = "throws"
  THEN [success |-> FALSE, safeAddress |-> "", errorMessage |-> ErrorMessageOf(o)]
  ELSE IF o.kind = "none"
  THEN [success |-> FALSE, safeAddress |-> "",
        errorMessage |-> <<"Deployment failed: No transaction returned">>]
  ELSE IF o.state = "STATE_FAILED"
  THEN [success |-> FALSE, safeAddress |-> "",
        errorMessage |-> <<"Safe deployment failed: ", o.state>>]
  ELSE [success |-> TRUE, safeAddress |-> IF o.to = Undefined THEN "" ELSE o.to,
        txHash |-> o.transactionHash]

\* deploySafe()
deploySafe(o) ==
  IF o.kind = "throws"
  THEN [success |-> FALSE, safeAddress |-> "", errorMessage |-> ErrorMessageOf(o)]
  ELSE IF o.kind = "none"
  THEN [success |-> FALSE, safeAddress |-> "",
        errorMessage |-> <<"Deployment failed: No transaction returned">>]
  ELSE IF o.state = "STATE_FAILED"
  THEN [success |-> FALSE, safeAddress |-> "",
        errorMessage |-> <<"Safe deployment failed: ", o.state>>]
  ELSE IF o.to = Undefined \/ o.to = ""
  THEN [success |-> FALSE, safeAddress |-> "",
        errorMessage |-> <<"Safe address not found in transaction">>]
  ELSE [success |-> TRUE, safeAddress |-> o.to, txHash |-> o.transactionHash]

\* approveUsdc(spender, amount): the calldata is encoded before the try block
approveUsdc(o) ==
  IF o = NotEncoded THEN Rejects
  ELSE IF o.kind = "throws" THEN [success |-> FALSE, errorMessage |-> ErrorMessageOf(o)]
  ELSE IF o.kind = "none"
  THEN [success |-> FALSE, errorMessage |-> <<"USDC approval failed: ", "No transaction">>]
  ELSE IF o.state = "STATE_FAILED"
  THEN [success |-> FALSE, errorMessage |-> <<"USDC approval failed: ", o.state>>]
  ELSE [success |-> TRUE, txHash |-> o.transactionHash]

\* split(conditionId, amount): the amount is parsed and the calldata encoded before
\* the try block
split(o) ==
  IF o = NotEncoded THEN Rejects
  ELSE IF o.kind = "throws" THEN [success |-> FALSE, errorMessage |-> ErrorMessageOf(o)]
  ELSE IF o.kind = "none"
  THEN [success |-> FALSE, errorMessage |-> <<"Split failed: ", "No transaction">>]
  ELSE IF o.state = "STATE_FAILED"
  THEN [success |-> FALSE, errorMessage |-> <<"Split failed: ", o.state>>]
  ELSE [success |-> TRUE, txHash |-> o.transactionHash]

\* merge(conditionId, amount)
merge(o) ==
  IF o = NotEncoded THEN Rejects
  ELSE IF o.kind = "throws" THEN [success |-> FALSE, errorMessage |-> ErrorMessageOf(o)]
  ELSE IF o.kind = "none"
  THEN [success |-> FALSE, errorMessage |-> <<"Merge failed: ", "No transaction">>]
  ELSE IF o.state = "STATE_FAILED"
  THEN [success |-> FALSE, errorMessage |-> <<"Merge failed: ", o.state>>]
  ELSE [success |-> TRUE, txHash |-> o.transactionHash]

\* redeem(conditionId, outcome)
redeem(o) ==
  IF o = NotEncoded THEN Rejects
  ELSE IF o.kind = "throws" THEN [success |-> FALSE, errorMessage |-> ErrorMessageOf(o)]
  ELSE IF o.kind = "none"
  THEN [success |-> FALSE, errorMessage |-> <<"Redeem failed: ", "No transaction">>]
  ELSE IF o.state = "STATE_FAILED"
  THEN [success |-> FALSE, errorMessage |-> <<"Redeem failed: ", o.state>>]
  ELSE [success |-> TRUE, txHash |-> o.transactionHash]

\* executeBatch(transactions): nothing is encoded
executeBatch(o) ==
  IF o.kind = "throws" THEN [success |-> FALSE, errorMessage |-> ErrorMessageOf(o)]
  ELSE IF o.kind = "none"
  THEN [success |-> FALSE, errorMessage |-> <<"Batch execution failed: ", "No transaction">>]
  ELSE IF o.state = "STATE_FAILED"
  THEN [success |-> FALSE, errorMessage |-> <<"Batch execution failed: ", o.state>>]
  ELSE [success |-> TRUE, txHash |-> o.transactionHash]

RelayOperations == {"deploySafe", "approveUsdc", "split", "merge", "redeem", "executeBatch"}
\* the operations that encode their arguments before the try block
EncodingOperations == {"approveUsdc", "split", "merge", "redeem"}

RelayResult(op, o) ==
  CASE op = "deploySafe" -> deploySafe(o)
    [] op = "approveUsdc" -> approveUsdc(o)
    [] op = "split" -> split(o)
    [] op = "merge" -> merge(o)
    [] op = "redeem" -> redeem(o)
    [] op = "executeBatch" -> executeBatch(o)

RelayInit ==
  relay = [calls |-> 0, op |-> "none", outcome |-> [kind |-> "none"], result |-> Rejects]

\* one operation of the service is called and settles
RelayCall ==
  /\ relay.calls < MaxRelayCalls
  /\ \E op \in RelayOperations :
       \E o \in RelayOutcomes \cup (IF op \in EncodingOperations THEN {NotEncoded} ELSE {}) :
         relay' = [calls |-> relay.calls + 1, op |-> op, outcome |-> o,
                   result |-> RelayResult(op, o)]
  /\ UNCHANGED notRelay

RelayNext == RelayCall

(***************************************************************************)
(* The aggregate holdings and the lot ledger side by side                  *)
(***************************************************************************)
\* a successful result: with the executed size and value, or without them
SuccessResults(trade) ==
  {[success |-> TRUE, copySizeUsed |-> k, copyValueUsed |-> k * trade.price] : k \in {1, 5}}
    \cup {[success |-> TRUE]}

\* one successful BUY result: onTrade adds it to the holdings, the ledger pushes its lot
LedgerBuy ==
  \E trade \in SourceTrades : \E result \in SuccessResults(trade) :
    LET copySize == CopySize(trade, result) IN
    /\ trade.side = "BUY"
    /\ fifoCount < FifoMaxTrades
    /\ Len(lotsAllByAsset[trade.tokenId]) < FifoMaxLots
    /\ holdings' = OnTrade(holdings, trade, result)
    /\ lotsAllByAsset' = [lotsAllByAsset EXCEPT
                            ![trade.tokenId] = FifoBuy(@, copySize, trade.price)]
    /\ totalCostAll' = totalCostAll + copySize * trade.price
    /\ fifoCount' = fifoCount + 1
    /\ fifoLast' = [side |-> "BUY", asset |-> trade.tokenId, size |-> copySize,
                    price |-> trade.price, before |-> lotsAllByAsset[trade.tokenId],
                    proceeds |-> 0, costRemoved |-> 0,
                    others |-> [a \in Assets \ {trade.tokenId} |-> lotsAllByAsset[a]]]
    /\ UNCHANGED <<realizedProceedsAll, stats, inflight, nextId, orders, callbacks,
                   boughtShares, soldShares, lastCb, pollVars, confVars, timerVars,
                   loopVars, stopVars, subVars, gateVars, seenVars, waitVars, relayVars>>

\* one successful SELL result: onTrade removes it from the holdings, the ledger sells
\* it from the front lots
LedgerSell ==
  \E trade \in SourceTrades : \E result \in SuccessResults(trade) :
    LET copySize == CopySize(trade, result)
        r == SellLoop(lotsAllByAsset[trade.tokenId], copySize, trade.price, 0, 0)
    IN
    /\ trade.side = "SELL"
    /\ fifoCount < FifoMaxTrades
    /\ holdings' = OnTrade(holdings, trade, result)
    /\ lotsAllByAsset' = [lotsAllByAsset EXCEPT ![trade.tokenId] = r.lots]
    /\ realizedProceedsAll' = realizedProceedsAll + r.proceeds
    /\ fifoCount' = fifoCount + 1
    /\ fifoLast' = [side |-> "SELL", asset |-> trade.tokenId, size |-> copySize,
                    price |-> trade.price, before |-> lotsAllByAsset[trade.tokenId],
                    proceeds |-> r.proceeds, costRemoved |-> r.costRemoved,
                    others |-> [a \in Assets \ {trade.tokenId} |-> lotsAllByAsset[a]]]
    /\ UNCHANGED <<totalCostAll, stats, inflight, nextId, orders, callbacks,
                   boughtShares, soldShares, lastCb, pollVars, confVars, timerVars,
                   loopVars, stopVars, subVars, gateVars, seenVars, waitVars, relayVars>>

LedgerNext == LedgerBuy \/ LedgerSell

Init == FifoInit /\ CopyInit /\ PollInit /\ ConfInit /\ TimerInit /\ LoopInit /\ StopInit /\ SubInit /\ GateInit /\ SeenInit /\ WaitInit /\ RelayInit

SpecFifo == Init /\ [][FifoNext]_vars

Spec == Init /\ [][CopyNext]_vars

SpecSeq == Init /\ [][SeqNext]_vars

SpecStop == Init /\ [][StopNext]_vars

SpecPoll == Init /\ [][PollNext]_vars

SpecConfirm == Init /\ [][ConfNext]_vars

SpecTimer == Init /\ [][TimerNext]_vars

SpecLoop == Init /\ [][LoopNext]_vars

SpecDry == Init /\ [][DryNext]_vars

SpecSub == Init /\ [][SubNext]_vars

SpecGate == Init /\ [][GateNext]_vars

SpecOverlap == Init /\ [][OverlapNext]_vars

\* the timer keeps firing (setInterval), every tick's queries are answered, and the
\* feed does not reject for ever: again and again a tick ends with all queries answered
SpecLive ==
  /\ Init
  /\ [][LiveNext]_vars
  /\ WF_vars(LiveTickStart)
  /\ []<>(pendingTicks = {})
  /\ []<>(pendingTicks = {} /\ lastTick # NoTick /\ lastTick.failed = {})

SpecRelay == Init /\ [][RelayNext]_vars

SpecTick == Init /\ [][TickNext]_vars

SpecLedgers == Init /\ [][LedgerNext]_vars

SpecSeen == Init /\ [][SeenNext]_vars

\* every getOrder call returns and every timer fires
SpecWait == Init /\ [][WaitNext]_vars /\ WF_vars(WaitNext)

(***************************************************************************)
(* Properties of the FIFO lot ledger                                       *)
(***************************************************************************)
\* C2: for every asset the denormalised total (the open size, summed over the lots
\* with size > 0) equals the sum of the sizes of all of the asset's lots, and the
\* total and every lot size are >= 0, in every state between two applied trades.
C2_TotalEqualsLotSum ==
  \A a \in Assets :
    /\ OpenSize(lotsAllByAsset[a]) = SumSize(lotsAllByAsset[a])
    /\ OpenSize(lotsAllByAsset[a]) >= 0
    /\ \A i \in 1..Len(lotsAllByAsset[a]) : lotsAllByAsset[a][i].size >= 0

\* a SELL has partly consumed a two-lot queue and shares are still held
C2_Witness ==
  /\ fifoLast.side = "SELL"
  /\ Len(fifoLast.before) = 2
  /\ lotsAllByAsset[fifoLast.asset] # fifoLast.before
  /\ OpenSize(lotsAllByAsset[fifoLast.asset]) > 0

\* The queue N left by selling `sold` shares out of the queue L, stated without the
\* loop: the first j lots are gone, at most one lot is partly consumed and keeps its
\* share of the cost, and the lots behind it are as they were.
FrontConsumed(L, N, sold) ==
  \E j \in 0..Len(L) :
    LET gone == SumSize(SubSeq(L, 1, j))
        part == sold - gone
    IN /\ gone <= sold
       /\ IF part = 0 THEN N = SubSeq(L, j + 1, Len(L))
          ELSE /\ j < Len(L)
               /\ part < L[j + 1].size
               /\ N = <<[size |-> L[j + 1].size - part,
                         cost |-> L[j + 1].cost - (L[j + 1].cost * part) \div L[j + 1].size]>>
                      \o SubSeq(L, j + 2, Len(L))

\* C7: a SELL of s shares at price p consumes the lots from the front only (take =
\* min(lot.size, remaining), cost reduced in proportion, depleted lots dropped, later
\* lots untouched), proceeds = shares sold * p, cost removed = the cost that left the
\* queue; lots (10, $5), (10, $6) and SELL 15 @ $0.70 leave (5, $3) with proceeds
\* $10.50, cost removed $8.00 and P&L $2.50.
C7_FifoSell ==
  fifoLast.side = "SELL" =>
    LET L == fifoLast.before
        N == lotsAllByAsset[fifoLast.asset]
        sold == Min(fifoLast.size, SumSize(L))
    IN /\ FrontConsumed(L, N, sold)
       /\ fifoLast.proceeds = sold * fifoLast.price
       /\ fifoLast.costRemoved = SumCost(L) - SumCost(N)
       /\ (/\ L = <<[size |-> 10, cost |-> 50000], [size |-> 10, cost |-> 60000]>>
           /\ fifoLast.size = 15
           /\ fifoLast.price = 7000)
          => /\ N = <<[size |-> 5, cost |-> 30000]>>
             /\ fifoLast.proceeds = 105000
             /\ fifoLast.costRemoved = 80000
             /\ fifoLast.proceeds - fifoLast.costRemoved = 25000

\* the example of C7 has been applied
C7_Witness ==
  /\ fifoLast.side = "SELL"
  /\ fifoLast.before = <<[size |-> 10, cost |-> 50000], [size |-> 10, cost |-> 60000]>>
  /\ fifoLast.size = 15
  /\ fifoLast.price = 7000
  /\ lotsAllByAsset[fifoLast.asset] = <<[size |-> 5, cost |-> 30000]>>

\* C31: a BUY of size s and value v = s * price leaves the asset's queue as it was
\* with the one lot (s, v) added at the back, raises the open size of the asset by s
\* and leaves the queues of the other assets as they were; the replica of a source BUY
\* of 100 @ $0.40 at sizeScale 0.5, 50 shares worth $20 (not below the minimum of $1),
\* adds the lot (50, $20).
C31_BuyAppendsOneLot ==
  fifoLast.side = "BUY" =>
    LET L == fifoLast.before
        N == lotsAllByAsset[fifoLast.asset]
    IN /\ Len(N) = Len(L) + 1
       /\ SubSeq(N, 1, Len(L)) = L
       /\ N[Len(N)] = [size |-> fifoLast.size, cost |-> fifoLast.size * fifoLast.price]
       /\ OpenSize(N) = OpenSize(L) + fifoLast.size
       /\ \A a \in Assets \ {fifoLast.asset} : lotsAllByAsset[a] = fifoLast.others[a]
       /\ (fifoLast.size = (100 * 5) \div 10 /\ fifoLast.price = 4000) =>
            /\ N[Len(N)] = [size |-> 50, cost |-> 200000]
            /\ N[Len(N)].cost >= MIN_TRADE_SIZE

\* the BUY of 50 @ $0.40 was applied to an asset that had a lot, the other asset
\* holding a lot too
C31_Witness ==
  /\ fifoLast.side = "BUY"
  /\ fifoLast.size = 50
  /\ fifoLast.price = 4000
  /\ Len(fifoLast.before) = 1
  /\ \E a \in Assets \ {fifoLast.asset} : lotsAllByAsset[a] # <<>>
  /\ lotsAllByAsset[fifoLast.asset][2] = [size |-> 50, cost |-> 200000]

\* C32: in every state between two applied trades every lot of every queue has
\* size > 0 and cost >= 0; a lot a SELL has emptied is no longer in the queue.
C32_LotsPositive ==
  \A a \in Assets : \A i \in 1..Len(lotsAllByAsset[a]) :
    /\ lotsAllByAsset[a][i].size > 0
    /\ lotsAllByAsset[a][i].cost >= 0

\* a SELL took exactly the first lot of a queue of two: that lot is gone, the second
\* is the queue
C32_Witness ==
  /\ fifoLast.side = "SELL"
  /\ Len(fifoLast.before) = 2
  /\ fifoLast.size = fifoLast.before[1].size
  /\ lotsAllByAsset[fifoLast.asset] = <<fifoLast.before[2]>>

(***************************************************************************)
(* Properties of the copy-trade pipeline                                   *)
(***************************************************************************)
\* C1: with the replica trades applied one after the other, the executed size of a
\* successful SELL is at most the shares the holdings had for the token immediately
\* before it, whatever the source sold, and the held shares of a token are never
\* below 0 (a token the map holds has shares > 0).
C1_SellWithinHeld ==
  /\ (lastCb.trade.side = "SELL" /\ lastCb.result.success)
       => CopySize(lastCb.trade, lastCb.result) <= lastCb.heldBefore
  /\ \A a \in Assets : SharesOf(holdings, a) >= 0
  /\ \A a \in DOMAIN holdings : holdings[a].shares > 0

\* a SELL executed for all the shares held, the source having sold more than that
C1_Witness ==
  /\ lastCb.trade.side = "SELL"
  /\ lastCb.result.success
  /\ ComputedSize(lastCb.trade) > lastCb.heldBefore
  /\ CopySize(lastCb.trade, lastCb.result) = lastCb.heldBefore

C5_OneCallbackPerTrade ==
  /\ \A i \in 1..MaxTrades :
       /\ callbacks[i] <= 1
       /\ (i < nextId /\ i \notin {t.id : t \in inflight}) => callbacks[i] = 1
       /\ (i >= nextId \/ i \in {t.id : t \in inflight}) => callbacks[i] = 0
  /\ lastCb.id > 0 => lastCb.result.success \in BOOLEAN
  /\ (nextId <= MaxTrades /\ Cardinality(inflight) < MaxInFlight) => ENABLED HandleAccept
  /\ nextId <= MaxTrades => ENABLED HandleSkip
  /\ inflight # {} => ENABLED SettleOrder

\* a skip and a failure happened, and a later trade was executed and reported
C5_Witness ==
  /\ stats.tradesSkipped >= 1
  /\ stats.tradesFailed >= 1
  /\ lastCb.id = 3
  /\ lastCb.result.success
  /\ \A i \in 1..3 : callbacks[i] = 1

C8_LedgerMovesOnSuccessOnly ==
  (lastCb.id > 0 /\ ~lastCb.result.success) => holdings = lastCb.before

\* a SELL of a held token timed out with PARTIALLY_FILLED read last
C8_Witness ==
  /\ lastCb.trade.side = "SELL"
  /\ lastCb.result.attempted
  /\ ~lastCb.result.success
  /\ lastCb.result.status = "PARTIALLY_FILLED"
  /\ lastCb.trade.tokenId \in DOMAIN holdings

\* C10: a source SELL of a token with 0 held shares is skipped: no order, a result
\* with attempted = false, tradesSkipped + 1 and no other counter changed; no SELL
\* is ever in flight for a token that had 0 held shares at the gate.
C10_ZeroHeldSellSkips ==
  /\ \A t \in inflight : t.trade.side = "SELL" => t.heldAtGate > 0
  /\ (lastCb.trade.side = "SELL" /\ lastCb.heldAtGate = 0) =>
       /\ lastCb.result.attempted = FALSE
       /\ lastCb.result.success = FALSE
       /\ orders[lastCb.id] = 0
       /\ lastCb.statsAfter = [lastCb.statsBefore EXCEPT !.tradesSkipped = @ + 1]

\* a SELL of a token that is not held was skipped
C10_Witness ==
  /\ lastCb.trade.side = "SELL"
  /\ lastCb.heldAtGate = 0
  /\ lastCb.result.attempted = FALSE
  /\ stats.tradesSkipped >= 1

C18_AttemptCountedOnce ==
  /\ lastCb.result.attempted =>
       /\ lastCb.result.success =>
            lastCb.statsAfter = [lastCb.statsBefore EXCEPT !.tradesExecuted = @ + 1]
       /\ ~lastCb.result.success =>
            lastCb.statsAfter = [lastCb.statsBefore EXCEPT !.tradesFailed = @ + 1]
  /\ stats.tradesExecuted + stats.tradesFailed + Cardinality(inflight) = stats.tradesDetected
  /\ stats.tradesDetected = Cardinality({i \in 1..MaxTrades : orders[i] >= 1})
  /\ inflight = {} => stats.tradesExecuted + stats.tradesFailed = stats.tradesDetected

\* no trade in flight, one attempt executed and one failed
C18_Witness ==
  /\ inflight = {}
  /\ stats.tradesExecuted >= 1
  /\ stats.tradesFailed >= 1
  /\ lastCb.result.attempted

\* C19: a Risk Gate rejection adds exactly 1 to tradesSkipped, is reported with
\* attempted = false and a reason, and submits no order; a trade that passes adds
\* exactly 1 to tradesDetected and its order is submitted.
C19_GateCounted ==
  /\ (lastCb.id > 0 /\ ~lastCb.result.attempted) =>
       /\ lastCb.statsAfter = [lastCb.statsBefore EXCEPT !.tradesSkipped = @ + 1]
       /\ "errorMsg" \in DOMAIN lastCb.result
       /\ orders[lastCb.id] = 0
  /\ stats.tradesSkipped = Cardinality({i \in 1..MaxTrades : i < nextId /\ orders[i] = 0})
  /\ stats.tradesDetected = Cardinality({i \in 1..MaxTrades : i < nextId /\ orders[i] = 1})
  /\ stats.tradesSkipped + stats.tradesDetected = nextId - 1
  /\ \A t \in inflight : orders[t.id] = 1

\* a BUY was rejected for its price after another trade had passed the gate
C19_Witness ==
  /\ lastCb.id > 0
  /\ ~lastCb.result.attempted
  /\ lastCb.result.errorMsg = "price above max"
  /\ stats.tradesDetected >= 1

\* C16: once the script has shut the subscription down, no new trade is handled,
\* the orders still in flight can still settle on their own, and the counters
\* reported are consistent: every detected trade is in exactly one of
\* tradesExecuted and tradesFailed; no holding has shares <= 0.
C16_StopLeavesConsistent ==
  stopped =>
    /\ ~ENABLED HandleSkip
    /\ ~ENABLED HandleAccept
    /\ inflight # {} => ENABLED (\E t \in inflight : \E o \in ExecOutcomes(t.size) :
                                   Settle(t, o))
    /\ finalStats.tradesDetected = finalStats.tradesExecuted + finalStats.tradesFailed
    /\ \A a \in DOMAIN holdings : holdings[a].shares > 0

(***************************************************************************)
(* Properties of the trade discovery                                       *)
(***************************************************************************)
\* C3 (as amended): a transactionHash is handed to the trade handlers at most once
\* for each stay in seenTxHashes: the times it was handed on are the times it was
\* removed from the set, plus one while it is in the set; the set holds no hash twice.
C3_HandedOncePerStay ==
  /\ \A h \in TxHashes :
       handed[h] = evicted[h] + (IF Has(seenTxHashes, h) THEN 1 ELSE 0)
  /\ \A i, j \in 1..Len(seenTxHashes) : i # j => seenTxHashes[i] # seenTxHashes[j]
  /\ Len(seenTxHashes) <= SeenCap

\* the queries returned a hash twice and it was handed on once
C3_Witness ==
  \E h \in TxHashes : fed[h] >= 2 /\ handed[h] = 1 /\ evicted[h] = 0

\* C3 (as stated): whatever the queries return, a transactionHash is handed to the
\* trade handlers at most once in a run.
C3_HandedAtMostOnce == \A h \in TxHashes : handed[h] <= 1

\* C9: in a tick where the query of one wallet fails, the new trades the other
\* wallets' queries returned are handed on in that tick, no error leaves the
\* interval callback, and the next tick starts as usual.
C9_WalletFailureIsolated ==
  /\ lastTick.failed # {} => \A h \in lastTick.fresh : Count(lastTick.out, h) >= 1
  /\ (tickCount < MaxTicks /\ pendingTicks = {}) => ENABLED TickStart

\* C12: the trades a tick hands on come in ascending timestamp order: none is
\* handed on before a trade of the same tick with a smaller timestamp.
C12_HandedAscending ==
  \A i, j \in 1..Len(lastTick.out) :
    i < j => activity[lastTick.out[i]].timestamp <= activity[lastTick.out[j]].timestamp

C11_WithinRateBudget ==
  walletCount >= 1 => walletCount * 60 <= FEED_RATE_BUDGET * pollInterval

GateEvaluations == {gateFirst, gateSecond} \ {NoEvaluation}

C24_WorstPriceBounds ==
  \A e \in GateEvaluations :
    /\ e.decision.accept =>
         /\ e.trade.side = "BUY" =>
              /\ e.decision.worstPrice =
                   (e.trade.price * (100 + e.options.maxSlippagePct)) \div 100
              /\ e.decision.worstPrice >= e.trade.price
         /\ e.trade.side = "SELL" =>
              /\ e.decision.worstPrice =
                   (e.trade.price * (100 - e.options.maxSlippagePct)) \div 100
              /\ e.decision.worstPrice <= e.trade.price
    /\ \A pct \in 0..99 :
         /\ slippagePrice("BUY", e.trade.price, pct) >= e.trade.price
         /\ slippagePrice("SELL", e.trade.price, pct) <= e.trade.price

\* a BUY was accepted with a slippage of 99 percent: its worst price is above the
\* source price
C24_Witness ==
  /\ gateFirst # NoEvaluation
  /\ gateFirst.decision.accept
  /\ gateFirst.trade.side = "BUY"
  /\ gateFirst.options.maxSlippagePct = 99
  /\ gateFirst.decision.worstPrice > gateFirst.trade.price

C22_PriceGateBuyOnly ==
  /\ \A t \in inflight : ~(t.trade.side = "BUY" /\ t.trade.price > MAX_PRICE_PER_SHARE)
  /\ lastCb.id # 0 =>
       /\ lastCb.trade.side = "BUY" /\ lastCb.trade.price > MAX_PRICE_PER_SHARE =>
            ~lastCb.result.attempted /\ orders[lastCb.id] = 0
       /\ lastCb.trade.side = "SELL" /\ ~lastCb.result.attempted =>
            lastCb.heldAtGate = 0

\* a SELL priced above maxPricePerShare had its order submitted and filled
C22_Witness ==
  /\ lastCb.trade.side = "SELL"
  /\ lastCb.trade.price > MAX_PRICE_PER_SHARE
  /\ lastCb.result.success
  /\ orders[lastCb.id] = 1

\* C23: a BUY whose copy value (source size * sizeScale * source price) is below
\* minOrderSizeUsdc is skipped; a SELL of a token with held shares is attempted
\* whatever its value, so the whole of a holding can be sold.
C23_ValueGateBuyOnly ==
  /\ \A t \in inflight :
       ~(t.trade.side = "BUY" /\
         ((t.trade.size * SIZE_SCALE_NUM) \div SIZE_SCALE_DEN) * t.trade.price < MIN_TRADE_SIZE)
  /\ lastCb.id # 0 =>
       /\ (lastCb.trade.side = "BUY" /\
           ((lastCb.trade.size * SIZE_SCALE_NUM) \div SIZE_SCALE_DEN) * lastCb.trade.price
             < MIN_TRADE_SIZE) =>
            ~lastCb.result.attempted /\ orders[lastCb.id] = 0
       /\ lastCb.trade.side = "SELL" /\ lastCb.heldAtGate > 0 =>
            lastCb.result.attempted /\ orders[lastCb.id] = 1

\* a SELL worth less than minOrderSizeUsdc sold the whole of the holding
C23_Witness ==
  /\ lastCb.trade.side = "SELL"
  /\ lastCb.result.success
  /\ lastCb.result.copyValueUsed < MIN_TRADE_SIZE
  /\ lastCb.result.copySizeUsed = lastCb.heldBefore
  /\ lastCb.trade.tokenId \notin DOMAIN holdings

\* C25: a successful callback moves the holding of the trade's token by the size and
\* value the result reports (copySizeUsed, copyValueUsed): a BUY adds them to shares
\* and cost basis, a SELL takes copySizeUsed off the shares.
C25_LedgerMovesByExecuted ==
  lastCb.id # 0 /\ lastCb.result.success =>
    LET tok == lastCb.trade.tokenId
        costBefore == IF tok \in DOMAIN lastCb.before THEN lastCb.before[tok].costBasis ELSE 0
        costNow == IF tok \in DOMAIN holdings THEN holdings[tok].costBasis ELSE 0
    IN IF lastCb.trade.side = "BUY"
       THEN /\ SharesOf(holdings, tok) = SharesOf(lastCb.before, tok) + lastCb.result.copySizeUsed
            /\ costNow = costBefore + lastCb.result.copyValueUsed
       ELSE SharesOf(holdings, tok) = SharesOf(lastCb.before, tok) - lastCb.result.copySizeUsed

\* a BUY filled for less than the size requested (source size * sizeScale) and the
\* holding grew by the filled size
C25_Witness ==
  /\ lastCb.trade.side = "BUY"
  /\ lastCb.result.success
  /\ lastCb.result.copySizeUsed < (lastCb.trade.size * SIZE_SCALE_NUM) \div SIZE_SCALE_DEN
  /\ SharesOf(holdings, lastCb.trade.tokenId)
       = SharesOf(lastCb.before, lastCb.trade.tokenId) + lastCb.result.copySizeUsed

\* C27: in a dry run no order is submitted for any trade, whatever trades are handled;
\* every handled trade is counted as detected or skipped and reported through onTrade
\* exactly once.
C27_DryRunSubmitsNothing ==
  DRY_RUN =>
    /\ \A i \in 1..MaxTrades :
         /\ orders[i] = 0
         /\ callbacks[i] = IF i < nextId THEN 1 ELSE 0
    /\ stats.tradesDetected + stats.tradesSkipped = nextId - 1

\* a trade passed the Risk Gate in a dry run and was reported through onTrade
C27_Witness ==
  /\ DRY_RUN
  /\ lastCb.id # 0
  /\ lastCb.result.attempted
  /\ lastCb.statsAfter.tradesDetected = lastCb.statsBefore.tradesDetected + 1
  /\ callbacks[lastCb.id] = 1
  /\ orders[lastCb.id] = 0

(***************************************************************************)
(* Properties of waitForFill against the clock                             *)
(***************************************************************************)
WaitBounds ==
  wait.phase # "idle" =>
    /\ wait.loopQueries <= CeilPolls(wait.timeout)
    /\ wait.finalQueries <= 1
    /\ wait.phase = "loop" => wait.last \in {"NONE", "NEW", "PARTIALLY_FILLED"}
    /\ wait.phase = "returned" =>
         /\ wait.last \in {Missing, "FILLED", "CANCELLED", "EXPIRED", "REJECTED"}
         /\ wait.finalQueries = 0
         /\ wait.last = Missing => ~wait.filled
    /\ wait.phase = "timedOut" => wait.elapsed >= wait.timeout /\ wait.finalQueries = 1

\* C30: every call of waitForFill returns; it makes at most ceil(timeout / 2 s) getOrder
\* calls inside the loop and at most one after it; an answer of NEW or
\* PARTIALLY_FILLED keeps the loop going until the deadline, and an answer of no order
\* ends it at once with filled = false.
C30_WaitTerminates ==
  /\ []WaitBounds
  /\ <>(wait.phase \in {"returned", "timedOut"})

\* a wait of 15 s read PARTIALLY_FILLED in each of its 8 iterations and made the one
\* call after the deadline
C30_Witness ==
  /\ wait.phase = "timedOut"
  /\ wait.timeout = MaxTimeout
  /\ wait.loopQueries = CeilPolls(MaxTimeout)
  /\ wait.finalQueries = 1
  /\ wait.last = "PARTIALLY_FILLED"

\* C39: fed the same successful BUY and SELL results, the aggregate holdings and the
\* lot ledger hold the same number of shares of every asset; an asset is in the
\* holdings map exactly while its shares are > 0, and its costBasis is never negative.
C39_HoldingsAgreeWithLots ==
  \A a \in Assets :
    /\ getPositionSharesForToken(holdings, a) = OpenSize(lotsAllByAsset[a])
    /\ a \in DOMAIN holdings <=> OpenSize(lotsAllByAsset[a]) > 0
    /\ a \in DOMAIN holdings => holdings[a].shares > 0 /\ holdings[a].costBasis >= 0

\* a SELL went into a queue of two lots and left shares: both ledgers still hold the
\* asset; the other asset was sold out and is in neither
C39_Witness ==
  /\ fifoLast.side = "SELL"
  /\ Len(fifoLast.before) = 2
  /\ fifoLast.asset \in DOMAIN holdings
  /\ holdings[fifoLast.asset].shares = OpenSize(lotsAllByAsset[fifoLast.asset])
  /\ holdings[fifoLast.asset].shares < OpenSize(fifoLast.before)

\* a SELL larger than the shares held emptied the queue and removed the holdings entry
C39_SoldOut ==
  /\ fifoLast.side = "SELL"
  /\ fifoLast.size > OpenSize(fifoLast.before)
  /\ fifoLast.before # <<>>
  /\ fifoLast.asset \notin DOMAIN holdings
  /\ lotsAllByAsset[fifoLast.asset] = <<>>

C34_IntervalFollowsWalletCount ==
  /\ walletCount >= 1 => polling
  /\ polling => pollInterval = PollIntervalFor(walletCount)

\* the watch set has grown into the 7 s tier and come back into the 5 s tier, and the
\* timer runs at 5 s
C34_Witness ==
  /\ polling
  /\ subscribeCalls >= 3
  /\ walletCount \in 1..10
  /\ pollInterval = 5

\* C35: a trade handed on is given to every handler registered at that moment, once
\* to each and to nothing else; whether it reaches the callback of a subscription is
\* decided by the filters of that subscription alone.
C35_EveryHandlerOnce ==
  /\ \A id \in lastEmit.registered :
       Cardinality({i \in 1..Len(lastEmit.invoked) : lastEmit.invoked[i] = id}) = 1
  /\ \A i \in 1..Len(lastEmit.invoked) : lastEmit.invoked[i] \in lastEmit.registered
  /\ \A id \in lastEmit.registered :
       id \in lastEmit.called <=> filteredHandler(subOptions[id], lastEmit.trade)

\* one trade was given to both registered handlers; the filters of subscription 2 let
\* it through to its callback while those of subscription 1 stopped it
C35_Witness ==
  /\ lastEmit.registered = {1, 2}
  /\ lastEmit.invoked = <<1, 2>>
  /\ lastEmit.called = {2}

C36_TicksOverlap ==
  \E t, u \in inflight : TickOfTrade(t.id) < TickOfTrade(u.id)

\* C38: no step lowers lastCheckTimestamp, also when the queries of a tick are
\* answered after those of the tick that started behind it.
C38_TimestampNeverDecreases ==
  [][lastCheckTimestamp' >= lastCheckTimestamp]_vars

RelayFailed(o) ==
  \/ o.kind \in {"throws", "none"}
  \/ o.kind = "tx" /\ o.state = "STATE_FAILED"

\* C40: an operation whose relay call threw, returned no transaction or returned a
\* transaction in STATE_FAILED returns (does not reject) a result with success = false,
\* a non-empty errorMessage and no txHash; a result with success = true belongs to a
\* transaction that is not in STATE_FAILED and carries its txHash, and for deploySafe
\* also a non-empty safeAddress, the transaction's `to`.
C40_RelayFailureIsAResult ==
  relay.calls >= 1 =>
    LET o == relay.outcome
        r == relay.result
    IN /\ (o # NotEncoded /\ RelayFailed(o)) =>
            /\ r # Rejects
            /\ r.success = FALSE
            /\ "errorMessage" \in DOMAIN r /\ r.errorMessage # <<>>
            /\ "txHash" \notin DOMAIN r
            /\ relay.op = "deploySafe" => r.safeAddress = ""
       /\ (r # Rejects /\ r.success) =>
            /\ o.kind = "tx"
            /\ o.state # "STATE_FAILED"
            /\ r.txHash = o.transactionHash
            /\ "errorMessage" \notin DOMAIN r
            /\ relay.op = "deploySafe" => (r.safeAddress # "" /\ r.safeAddress = o.to)
       /\ o # NotEncoded => r # Rejects

\* deploySafe got a mined transaction without a `to` and returned success = false
\* with a message
C40_Witness ==
  /\ relay.calls >= 1
  /\ relay.op = "deploySafe"
  /\ relay.outcome.kind = "tx"
  /\ relay.outcome.state = "STATE_MINED"
  /\ relay.outcome.to \in {Undefined, ""}
  /\ relay.result.success = FALSE
  /\ relay.result.errorMessage = <<"Safe address not found in transaction">>

\* split got a transaction in STATE_FAILED and returned success = false
C40_SplitFailed ==
  /\ relay.op = "split"
  /\ relay.outcome.kind = "tx"
  /\ relay.outcome.state = "STATE_FAILED"
  /\ relay.result = [success |-> FALSE, errorMessage |-> <<"Split failed: ", "STATE_FAILED">>]

====
